---- MODULE Spec2Model ----
(***************************************************************************)
(* site-guard: the retry-driven site check (HttpSiteChecker.check_site)    *)
(* the monitoring round (MonitoringService.monitor_sites) and the          *)
(* monitoring loop (MonitoringApplication.run).                            *)
(*                                                                         *)
(* A site check is an asyncio task.  Its suspension points are the HTTP    *)
(* request of an attempt and the backoff sleep between two attempts.  The  *)
(* round creates one task per site, consumes them through                  *)
(* asyncio.as_completed, hands every result to the sink and yields it.     *)
(* The loop runs rounds in the task that called run(), one after the       *)
(* other, until stop() clears the running flag or the task is cancelled.   *)
(***************************************************************************)
EXTENDS Integers, Sequences, FiniteSets, TLC

VARIABLES
    sites_list,        \* monitor_sites: list(sites), a sequence of site ids
    cfg,               \* site_config.retry_config of every site
    pc,                \* position of every site's check_site task
    attempt,           \* check_site: the loop variable (0-based)
    last_exception,    \* check_site: last_exception
    last_outcome,      \* what the site's current attempt ended with, once it has ended
    delay_arg,         \* argument of the most recent retry_config.calculate_delay call
    delay,             \* check_site: delay, what the most recent backoff sleep was given
    result,            \* the SiteCheckResult check_site returned
    cancel_requested,  \* task.cancel() was called on the site's task
    completed,         \* the tasks in the order they became done
    done_queue,        \* asyncio.as_completed: the queue of done tasks not yet taken
    mpc,               \* position of monitor_sites
    iter,              \* number of as_completed coroutines awaited so far
    current,           \* monitor_sites: the site whose result is being handled
    logged,            \* results the sink's log_result has recorded in this round
    sink_failed,       \* sites whose log_result call raised
    skipped,           \* sites whose check raised ("Site check failed" was logged)
    yielded,           \* what monitor_sites has yielded, in order
    yielded_at_cancel, \* number of outcomes yielded when the round was cancelled
    leftover,          \* sites with a task of an earlier round that is still running
    apc,               \* position of MonitoringApplication.run
    running,           \* MonitoringApplication._running
    round_number,      \* _run_monitoring_loop: round_number
    rounds_started,    \* number of _execute_monitoring_round calls so far
    stop_called,       \* stop() has been called since run() was invoked
    cancel_delivered,  \* CancelledError has been thrown into run()
    run_exit,          \* how run() ended
    sink_entered,      \* number of __aenter__ calls on the result sink
    sink_released,     \* number of __aexit__ calls on the result sink
    policy,            \* a RetryConfig: the constructor's arguments, then the object
    delay_calls,       \* the calculate_delay calls made on policy, with what they returned
    requirement,       \* a ContentRequirement: the constructor's arguments, then the object
    content,           \* the body handed to matches / check_content_requirements
    match_result,      \* what requirement.matches(content) returned
    site,              \* a SiteConfig: content_requirements and require_all_content
    site_result,       \* what site.check_content_requirements(content) returned
    config_file,       \* the file FileConfigLoader.load_config is called on
    load_result,       \* how load_config ended: a configuration or the error raised
    monitoring_config, \* a MonitoringConfig: check_interval
    overridden,        \* how monitoring_config.with_overridden_interval ended
    response_text,     \* _perform_single_check: content, the body of the response
    content_check_passed, \* _perform_single_check: content_check_passed
    success_count,     \* _execute_monitoring_round: success_count
    error_count,       \* _execute_monitoring_round: error_count
    check_result       \* the SiteCheckResult _perform_single_check built for a response

\* the objects of domain/models on which methods are called by themselves
fnVars == <<policy, delay_calls, requirement, content, match_result, site,
            site_result>>

\* the loader's file, a MonitoringConfig and the checker's handling of a body
objVars == <<config_file, load_result, monitoring_config, overridden,
             response_text, content_check_passed, check_result>>

\* the counters of _execute_monitoring_round
countVars == <<success_count, error_count>>

\* what MonitoringApplication writes
appVars == <<apc, running, round_number, rounds_started, stop_called,
             cancel_delivered, run_exit, sink_entered, sink_released>>

vars == <<fnVars, objVars, countVars, sites_list, cfg, pc, attempt, last_exception, last_outcome,
          delay_arg, delay, result, cancel_requested, completed, done_queue, mpc, iter, current,
          logged, sink_failed, skipped, yielded, yielded_at_cancel, leftover,
          appVars>>

\* what a check_site task writes
taskVars == <<pc, attempt, last_exception, last_outcome, delay_arg, delay, result,
              completed, done_queue>>

\* what monitor_sites writes, the tasks' fields apart
roundVars == <<mpc, iter, current, logged, sink_failed, skipped, yielded,
               yielded_at_cancel>>

----------------------------------------------------------------------------
(* Bounds of the model *)

\* largest number of sites in a round
MaxSites == 2

\* largest retry_config.max_attempts
MaxAttempts == 3

\* largest measured response time, in milliseconds
MaxElapsedMs == 1

Sites == 1..MaxSites

None == "None"

----------------------------------------------------------------------------
(* CheckStatus, domain/models/status.py *)

SUCCESS == "SUCCESS"

CONNECTION_ERROR == "CONNECTION_ERROR"

CONTENT_ERROR == "CONTENT_ERROR"

TIMEOUT_ERROR == "TIMEOUT_ERROR"

SERVER_ERROR == "SERVER_ERROR"

REDIRECT_ERROR == "REDIRECT_ERROR"

NOT_FOUND == "NOT_FOUND"

CheckStatus == {SUCCESS, CONNECTION_ERROR, CONTENT_ERROR, TIMEOUT_ERROR,
                SERVER_ERROR, REDIRECT_ERROR, NOT_FOUND}

----------------------------------------------------------------------------
(* RetryConfig, domain/models/config.py: the fields check_site reads *)

\* HTTP statuses a response can carry
HttpStatuses == {200, 404, 500, 503}

\* statuses a configuration may list in retry_on_status_codes
RetryableStatuses == {404, 500}

\* RetryStrategy
FIXED == "FIXED"

EXPONENTIAL == "EXPONENTIAL"

LINEAR == "LINEAR"

RetryStrategy == {FIXED, EXPONENTIAL, LINEAR}

\* Delays are counted in milliseconds, multipliers in tenths and jitter
\* factors in hundredths:
\* base_delay_seconds 1000 is 1.0 s, backoff_multiplier 20 is 2.0.
RetryConfig == [enabled : BOOLEAN,
                max_attempts : 1..MaxAttempts,
                strategy : RetryStrategy,
                base_delay_seconds : {1000},
                max_delay_seconds : {3000},
                backoff_multiplier : {20},
                retry_on_status_codes : SUBSET RetryableStatuses,
                retry_on_timeout : BOOLEAN,
                retry_on_connection_error : BOOLEAN,
                jitter : BOOLEAN]

\* the values random.uniform(0.8, 1.2) is drawn from, in hundredths
JitterFactors == {80, 100, 120}

\* the jitter factors a call of calculate_delay can draw
JitterDraws(c) == IF c.jitter THEN JitterFactors ELSE {100}

RECURSIVE Pow(_, _)
Pow(b, e) == IF e = 0 THEN 1 ELSE b * Pow(b, e - 1)

Min(a, b) == IF a <= b THEN a ELSE b

\* calculate_delay, raising the multiplier to the attempt number
calculate_delay_power_n(c, n, f) ==
    IF n <= 0 THEN 0
    ELSE LET raw == IF c.strategy = FIXED THEN c.base_delay_seconds
                    ELSE IF c.strategy = LINEAR THEN c.base_delay_seconds * n
                    ELSE (c.base_delay_seconds * Pow(c.backoff_multiplier, n))
                            \div Pow(10, n)
             capped == Min(raw, c.max_delay_seconds)
         IN IF c.jitter THEN (capped * f) \div 100 ELSE capped

\* calculate_delay, applying the jitter before the limit
calculate_delay_jitter_first(c, n, f) ==
    IF n <= 0 THEN 0
    ELSE LET raw == IF c.strategy = FIXED THEN c.base_delay_seconds
                    ELSE IF c.strategy = LINEAR THEN c.base_delay_seconds * n
                    ELSE (c.base_delay_seconds * Pow(c.backoff_multiplier, n - 1))
                            \div Pow(10, n - 1)
             jittered == IF c.jitter THEN (raw * f) \div 100 ELSE raw
         IN Min(jittered, c.max_delay_seconds)

\* calculate_delay, without the limit
calculate_delay_unclamped(c, n, f) ==
    IF n <= 0 THEN 0
    ELSE LET raw == IF c.strategy = FIXED THEN c.base_delay_seconds
                    ELSE IF c.strategy = LINEAR THEN c.base_delay_seconds * n
                    ELSE (c.base_delay_seconds * Pow(c.backoff_multiplier, n - 1))
                            \div Pow(10, n - 1)
         IN IF c.jitter THEN (raw * f) \div 100 ELSE raw

\* calculate_delay, the delay shrinking from attempt to attempt under LINEAR
calculate_delay_linear_shrinking(c, n, f) ==
    IF n <= 0 THEN 0
    ELSE LET raw == IF c.strategy = FIXED THEN c.base_delay_seconds
                    ELSE IF c.strategy = LINEAR THEN c.base_delay_seconds \div n
                    ELSE (c.base_delay_seconds * Pow(c.backoff_multiplier, n - 1))
                            \div Pow(10, n - 1)
             capped == Min(raw, c.max_delay_seconds)
         IN IF c.jitter THEN (capped * f) \div 100 ELSE capped

\* RetryConfig.calculate_delay(attempt), the jitter factor drawn being f
calculate_delay(c, n, f) ==
    IF n <= 0 THEN 0
    ELSE LET raw == IF c.strategy = FIXED THEN c.base_delay_seconds
                    ELSE IF c.strategy = LINEAR THEN c.base_delay_seconds * n
                    ELSE (c.base_delay_seconds * Pow(c.backoff_multiplier, n - 1))
                            \div Pow(10, n - 1)
             capped == Min(raw, c.max_delay_seconds)
         IN IF c.jitter THEN (capped * f) \div 100 ELSE capped

\* the configurations of the sites of a round: retries enabled on status 500,
\* on timeouts and on connection errors, with one attempt or with two,
\* exponential backoff without jitter
RoundRetryConfig == {c \in RetryConfig : /\ c.enabled
                                         /\ c.strategy = EXPONENTIAL
                                         /\ ~c.jitter
                                         /\ c.max_attempts \in {1, 2}
                                         /\ c.retry_on_status_codes = {500}
                                         /\ c.retry_on_timeout
                                         /\ c.retry_on_connection_error}

----------------------------------------------------------------------------
(* What one HTTP attempt can end with (_perform_single_check):             *)
(*   response   a response arrived: its status, whether the body meets the *)
(*              content requirements, the measured time (measured for a    *)
(*              status >= 400 too, before RetryableHttpError is raised)    *)
(*   timeout    TimeoutError, after the measured time                      *)
(*   connector  aiohttp.ClientConnectorError, after the measured time      *)
(*   client     another aiohttp.ClientError                                *)
(*   unexpected any other exception                                        *)

ElapsedMs == 0..MaxElapsedMs

\* what is measured when the request timed out: the wait lasted as long as
\* site_config.timeout, which is a millisecond or more (a timeout of 0 switches
\* the total timeout of aiohttp off)
TimeoutElapsedMs == ElapsedMs \ {0}

\* _perform_single_check raises for this outcome instead of returning a result
Raises(o) == \/ o.kind \in {"client", "unexpected"}
             \/ o.kind = "response" /\ o.status >= 400

Outcomes ==
    [kind : {"response"}, status : {s \in HttpStatuses : s < 400},
     content_ok : BOOLEAN, ms : ElapsedMs]
    \cup [kind : {"response"}, status : {s \in HttpStatuses : s >= 400},
          content_ok : {FALSE}, ms : ElapsedMs]
    \cup [kind : {"timeout"}, status : {0}, content_ok : {FALSE},
          ms : TimeoutElapsedMs]
    \cup [kind : {"connector"}, status : {0}, content_ok : {FALSE},
          ms : ElapsedMs]
    \cup [kind : {"client", "unexpected"}, status : {0}, content_ok : {FALSE},
          ms : {0}]

\* what the attempts of a round's checks end with: every kind of outcome, one
\* status below 400 and one above, one measured time
RoundOutcomes == {o \in Outcomes : /\ o.status \in {0, 200, 500}
                                   /\ o.ms \in {0, MaxElapsedMs}
                                   /\ o.ms = 0 <=> o.kind \in {"client", "unexpected"}}

NoOutcome == [kind |-> None, status |-> 0, content_ok |-> FALSE, ms |-> 0]

\* SiteCheckResult, domain/models/result.py (url and timestamp left out);
\* http_status_code and content_check_passed are no fields of the model and
\* are dropped by it
SiteCheckResult(status, ms, msg) ==
    [status |-> status, response_time_ms |-> ms, error_message |-> msg,
     failed_content_requirements |-> None]

NoResult == SiteCheckResult(None, 0, None)

\* the exceptions check_site catches.  _perform_single_check handles TimeoutError
\* and ClientConnectorError itself and returns a result for them, so what reaches
\* check_site's handler is a RetryableHttpError or another aiohttp.ClientError
RetryableHttpError(status) == [kind |-> "RetryableHttpError", status_code |-> status]

ClientError == [kind |-> "ClientError", status_code |-> 0]

NoException == [kind |-> None, status_code |-> 0]

\* the exception _perform_single_check lets escape to check_site's handler
RaisedException(o) == IF o.kind = "response" THEN RetryableHttpError(o.status)
                      ELSE ClientError

\* _perform_single_check, reporting a timeout as the exhausted-retries path does
perform_single_check_timeout_sentinel(o) ==
    CASE o.kind = "response" /\ o.content_ok ->
            SiteCheckResult(SUCCESS, o.ms, None)
      [] o.kind = "response" /\ ~o.content_ok ->
            SiteCheckResult(CONTENT_ERROR, o.ms, "Content requirements not met")
      [] o.kind = "timeout" ->
            SiteCheckResult(TIMEOUT_ERROR, 0, "Timeout after attempts")
      [] OTHER ->
            SiteCheckResult(CONNECTION_ERROR, o.ms, "Connection error")

\* _perform_single_check, reporting no time for an attempt that got no response
perform_single_check_untimed(o) ==
    CASE o.kind = "response" /\ o.content_ok ->
            SiteCheckResult(SUCCESS, o.ms, None)
      [] o.kind = "response" /\ ~o.content_ok ->
            SiteCheckResult(CONTENT_ERROR, o.ms, "Content requirements not met")
      [] o.kind = "timeout" ->
            SiteCheckResult(TIMEOUT_ERROR, 0, "Request timed out")
      [] OTHER ->
            SiteCheckResult(CONNECTION_ERROR, 0, "Connection error")

\* the result _perform_single_check returns
perform_single_check(o) ==
    CASE o.kind = "response" /\ o.content_ok ->
            SiteCheckResult(SUCCESS, o.ms, None)
      [] o.kind = "response" /\ ~o.content_ok ->
            SiteCheckResult(CONTENT_ERROR, o.ms, "Content requirements not met")
      [] o.kind = "timeout" ->
            SiteCheckResult(TIMEOUT_ERROR, o.ms, "Request timed out")
      [] OTHER ->
            SiteCheckResult(CONNECTION_ERROR, o.ms, "Connection error")

\* should_retry, retrying whatever the result while attempts are left
should_retry_always(r, c, a) == c.enabled /\ a < c.max_attempts - 1

\* should_retry, taking a content mismatch for a transient failure
should_retry_content_error(r, c, a) ==
    IF ~c.enabled \/ a >= c.max_attempts - 1 THEN FALSE
    ELSE IF r.status \in {SERVER_ERROR, CONTENT_ERROR} THEN TRUE
    ELSE IF c.retry_on_timeout /\ r.status = TIMEOUT_ERROR THEN TRUE
    ELSE c.retry_on_connection_error /\ r.status = CONNECTION_ERROR

\* should_retry, never asking retry_on_timeout
should_retry_any_timeout(r, c, a) ==
    IF ~c.enabled \/ a >= c.max_attempts - 1 THEN FALSE
    ELSE IF r.status = SERVER_ERROR THEN TRUE
    ELSE IF r.status = TIMEOUT_ERROR THEN TRUE
    ELSE c.retry_on_connection_error /\ r.status = CONNECTION_ERROR

should_retry(r, c, a) ==
    IF ~c.enabled \/ a >= c.max_attempts - 1 THEN FALSE
    ELSE IF r.status = SERVER_ERROR THEN TRUE
    ELSE IF c.retry_on_timeout /\ r.status = TIMEOUT_ERROR THEN TRUE
    ELSE c.retry_on_connection_error /\ r.status = CONNECTION_ERROR

\* should_retry_exception, giving up one attempt early
should_retry_exception_early(e, c, a) ==
    IF ~c.enabled \/ a >= c.max_attempts - 2 THEN FALSE
    ELSE IF e.kind = "RetryableHttpError"
         THEN e.status_code \in c.retry_on_status_codes
    ELSE IF e.kind = "TimeoutError" /\ c.retry_on_timeout THEN TRUE
    ELSE IF e.kind = "ClientConnectorError" /\ c.retry_on_connection_error THEN TRUE
    ELSE e.kind \in {"ClientConnectorError", "ClientError"}
         /\ c.retry_on_connection_error

should_retry_exception(e, c, a) ==
    IF ~c.enabled \/ a >= c.max_attempts - 1 THEN FALSE
    ELSE IF e.kind = "RetryableHttpError"
         THEN e.status_code \in c.retry_on_status_codes
    ELSE IF e.kind = "TimeoutError" /\ c.retry_on_timeout THEN TRUE
    ELSE IF e.kind = "ClientConnectorError" /\ c.retry_on_connection_error THEN TRUE
    ELSE e.kind \in {"ClientConnectorError", "ClientError"}
         /\ c.retry_on_connection_error

\* _create_error_result, telling HTTP errors apart by their status
create_error_result_by_status(e) ==
    IF e.kind = "RetryableHttpError"
    THEN SiteCheckResult(IF e.status_code >= 500 THEN SERVER_ERROR ELSE NOT_FOUND,
                         0, "HTTP error after attempts")
    ELSE IF e.kind = "TimeoutError"
    THEN SiteCheckResult(TIMEOUT_ERROR, 0, "Timeout after attempts")
    ELSE SiteCheckResult(CONNECTION_ERROR, 0, "Connection error after attempts")

\* _create_error_result, leaving the message out
create_error_result_no_message(e) ==
    IF e.kind = "TimeoutError"
    THEN SiteCheckResult(TIMEOUT_ERROR, 0, None)
    ELSE SiteCheckResult(CONNECTION_ERROR, 0, None)

create_error_result(e) ==
    IF e.kind = "RetryableHttpError"
    THEN SiteCheckResult(CONNECTION_ERROR, 0, "HTTP error after attempts")
    ELSE IF e.kind = "TimeoutError"
    THEN SiteCheckResult(TIMEOUT_ERROR, 0, "Timeout after attempts")
    ELSE IF e.kind = "ClientConnectorError"
    THEN SiteCheckResult(CONNECTION_ERROR, 0, "Connection error after attempts")
    ELSE SiteCheckResult(CONNECTION_ERROR, 0, "Unknown error after attempts")

----------------------------------------------------------------------------
(* The check_site task of site s *)

Running(s) == pc[s] \in {"request", "sleep"}

Done(s) == pc[s] \in {"returned", "raised", "cancelled"}

\* the task of site s becomes done: its done callbacks run
TaskDone(s) ==
    /\ completed' = Append(completed, s)
    /\ done_queue' = Append(done_queue, s)

\* the attempt after the failed one
delay_attempt_next(a) == a + 2

\* `retry_config.calculate_delay(attempt + 1)`: the argument, attempt being the
\* 0-based loop variable
delay_attempt(a) == a + 1

\* the attempt in flight ends with outcome o; check_site retries or finishes.
\* (The session exists: the monitoring loop creates it with with_session() before
\* any check is started.)
AttemptEnds(s, o) ==
    /\ pc[s] = "request"
    /\ ~cancel_requested[s]
    /\ last_outcome' = [last_outcome EXCEPT ![s] = o]
    /\ IF o.kind = "unexpected"
       THEN /\ pc' = [pc EXCEPT ![s] = "raised"]
            /\ TaskDone(s)
            /\ UNCHANGED <<last_exception, delay_arg, delay, result>>
       ELSE IF Raises(o)
       THEN LET e == RaisedException(o) IN
            /\ last_exception' = [last_exception EXCEPT ![s] = e]
            /\ IF /\ should_retry_exception(e, cfg[s], attempt[s])
                  /\ attempt[s] < cfg[s].max_attempts - 1
               THEN /\ pc' = [pc EXCEPT ![s] = "sleep"]
                    /\ delay_arg' = [delay_arg EXCEPT ![s] = delay_attempt(attempt[s])]
                    /\ \E f \in JitterDraws(cfg[s]) :
                          delay' = [delay EXCEPT ![s] =
                             calculate_delay(cfg[s], delay_attempt(attempt[s]), f)]
                    /\ UNCHANGED <<result, completed, done_queue>>
               ELSE /\ pc' = [pc EXCEPT ![s] = "returned"]
                    /\ result' = [result EXCEPT ![s] = create_error_result(e)]
                    /\ TaskDone(s)
                    /\ UNCHANGED <<delay_arg, delay>>
       ELSE LET r == perform_single_check(o) IN
            /\ IF /\ should_retry(r, cfg[s], attempt[s])
                  /\ attempt[s] < cfg[s].max_attempts - 1
               THEN /\ pc' = [pc EXCEPT ![s] = "sleep"]
                    /\ delay_arg' = [delay_arg EXCEPT ![s] = delay_attempt(attempt[s])]
                    /\ \E f \in JitterDraws(cfg[s]) :
                          delay' = [delay EXCEPT ![s] =
                             calculate_delay(cfg[s], delay_attempt(attempt[s]), f)]
                    /\ UNCHANGED <<result, completed, done_queue>>
               ELSE /\ pc' = [pc EXCEPT ![s] = "returned"]
                    /\ result' = [result EXCEPT ![s] = r]
                    /\ TaskDone(s)
                    /\ UNCHANGED <<delay_arg, delay>>
            /\ UNCHANGED last_exception
    /\ UNCHANGED <<attempt, sites_list, cfg, fnVars, cancel_requested,
                   roundVars, leftover, appVars, objVars, countVars>>

\* the backoff sleep is over and the same attempt is made again
SleepEnds_same_attempt(s) ==
    /\ pc[s] = "sleep"
    /\ ~cancel_requested[s]
    /\ pc' = [pc EXCEPT ![s] = "request"]
    /\ last_outcome' = [last_outcome EXCEPT ![s] = NoOutcome]
    /\ UNCHANGED <<attempt, last_exception, delay_arg, delay, result, completed,
                   done_queue, sites_list, cfg, fnVars, cancel_requested,
                   roundVars, leftover, appVars, objVars, countVars>>

\* the backoff sleep is over: the next iteration of the loop issues a request
SleepEnds(s) ==
    /\ pc[s] = "sleep"
    /\ ~cancel_requested[s]
    /\ attempt' = [attempt EXCEPT ![s] = attempt[s] + 1]
    /\ pc' = [pc EXCEPT ![s] = "request"]
    /\ last_outcome' = [last_outcome EXCEPT ![s] = NoOutcome]
    /\ UNCHANGED <<last_exception, delay_arg, delay, result, completed,
                   done_queue, sites_list, cfg, fnVars, cancel_requested,
                   roundVars, leftover, appVars, objVars, countVars>>

\* CancelledError is thrown into the task and caught as a failed attempt: the
\* check returns a timeout result
TaskCancelled_caught(s) ==
    /\ Running(s)
    /\ cancel_requested[s]
    /\ pc' = [pc EXCEPT ![s] = "returned"]
    /\ result' = [result EXCEPT ![s] =
                     SiteCheckResult(TIMEOUT_ERROR, 0, "Request timed out")]
    /\ TaskDone(s)
    /\ UNCHANGED <<attempt, last_exception, last_outcome, delay_arg, delay,
                   sites_list, cfg, fnVars, cancel_requested, roundVars,
                   leftover, appVars, objVars, countVars>>

\* CancelledError is thrown into the task at its suspension point; no handler
\* of check_site or _perform_single_check catches it
TaskCancelled(s) ==
    /\ Running(s)
    /\ cancel_requested[s]
    /\ pc' = [pc EXCEPT ![s] = "cancelled"]
    /\ TaskDone(s)
    /\ UNCHANGED <<attempt, last_exception, last_outcome, delay_arg, delay,
                   result, sites_list, cfg, fnVars, cancel_requested,
                   roundVars, leftover, appVars, objVars, countVars>>

\* the owner of a check_site task calls task.cancel()
CancelCheck(s) ==
    /\ Running(s)
    /\ ~cancel_requested[s]
    /\ cancel_requested' = [cancel_requested EXCEPT ![s] = TRUE]
    /\ UNCHANGED <<sites_list, cfg, fnVars, taskVars, roundVars, leftover,
                   appVars, objVars, countVars>>

----------------------------------------------------------------------------
(* One check_site call on its own, for every retry configuration *)

InitTask ==
    /\ attempt = [s \in Sites |-> 0]
    /\ last_exception = [s \in Sites |-> NoException]
    /\ last_outcome = [s \in Sites |-> NoOutcome]
    /\ delay_arg = [s \in Sites |-> 0]
    /\ delay = [s \in Sites |-> 0]
    /\ result = [s \in Sites |-> NoResult]
    /\ cancel_requested = [s \in Sites |-> FALSE]
    /\ completed = <<>>
    /\ done_queue = <<>>

InitRound ==
    /\ success_count = 0
    /\ error_count = 0
    /\ iter = 0
    /\ current = 0
    /\ logged = <<>>
    /\ sink_failed = {}
    /\ skipped = {}
    /\ yielded = <<>>
    /\ yielded_at_cancel = 0
    /\ leftover = {}

\* no RetryConfig, ContentRequirement, SiteConfig or result of theirs
Absent == [state |-> "none"]

\* no RetryConfig is looked at by itself
InitNoPolicy ==
    /\ policy = Absent
    /\ delay_calls = <<>>

\* no ContentRequirement and no SiteConfig is looked at by itself
InitNoContent ==
    /\ requirement = Absent
    /\ content = <<>>
    /\ match_result = <<>>
    /\ site = Absent
    /\ site_result = Absent

\* no file is loaded, no interval overridden and no body handled by itself
InitNoObj ==
    /\ config_file = Absent
    /\ load_result = Absent
    /\ monitoring_config = Absent
    /\ overridden = Absent
    /\ response_text = <<>>
    /\ content_check_passed = <<>>
    /\ check_result = Absent

\* no MonitoringApplication: the check or the round is called on its own
InitNoApp ==
    /\ apc = "none"
    /\ running = FALSE
    /\ round_number = 0
    /\ rounds_started = 0
    /\ stop_called = FALSE
    /\ cancel_delivered = FALSE
    /\ run_exit = None
    /\ sink_entered = 0
    /\ sink_released = 0

InitCheck ==
    /\ InitNoObj
    /\ sites_list = <<1>>
    /\ \E c \in RetryConfig : cfg = [s \in Sites |-> c]
    /\ pc = [s \in Sites |-> IF s = 1 THEN "request" ELSE "idle"]
    /\ mpc = "none"
    /\ InitTask
    /\ InitRound
    /\ InitNoPolicy
    /\ InitNoContent
    /\ InitNoApp

NextCheck ==
    \/ \E o \in Outcomes : AttemptEnds(1, o)
    \/ SleepEnds(1)
    \/ TaskCancelled(1)
    \/ CancelCheck(1)

SpecCheck == InitCheck /\ [][NextCheck]_vars

\* every request ends (with a response, a timeout or an error), every backoff
\* sleep ends, and a cancellation that was requested is delivered
FairCheck ==
    /\ WF_vars(\E o \in Outcomes : AttemptEnds(1, o))
    /\ WF_vars(SleepEnds(1))
    /\ WF_vars(TaskCancelled(1))

SpecCheckFair == SpecCheck /\ FairCheck

----------------------------------------------------------------------------
(* MonitoringService.monitor_sites, one round *)

Range(q) == {q[i] : i \in 1..Len(q)}

\* only the first site's check is started
TasksCreated_first(list) == {list[1]}

\* the sites whose check is started when the round starts: one task per site
TasksCreated(list) == Range(list)

\* the done task that comes first in the input list is handed out
QueueGet_submission_order(q) ==
    CHOOSE k \in 1..Len(q) : \A j \in 1..Len(q) : q[k] <= q[j]

\* asyncio.as_completed: the position in the queue of the task handed out next
QueueGet(q) == 1

\* the loop ends after its first iteration
LoopExhausted_first(i, list) == i >= 1

\* the for loop over as_completed has handed out every task
LoopExhausted(i, list) == i = Len(list)

Without(q, k) == [j \in 1..(Len(q) - 1) |-> IF j < k THEN q[j] ELSE q[j + 1]]

\* the next iteration of the for loop, or the end of the generator
Continue(i) == IF LoopExhausted(i, sites_list) THEN "returned" ELSE "await_coro"

\* a check that raised ends the round
AfterRaised_abort(i) == "returned"

\* a check raised: the inner handler logs "Site check failed" and continues
AfterRaised(i) == Continue(i)

\* the handler does not wait for the tasks
GatherDone_no_wait == TRUE

\* gather(*tasks, return_exceptions=True) is done when every task is done
GatherDone == \A s \in Range(sites_list) : pc[s] \in {"returned", "raised", "cancelled"}

\* the tasks the cancellation handler calls cancel() on
ToCancel == {s \in Range(sites_list) : ~Done(s)}

\* monitor_sites is called: an empty list returns at once, else every task is
\* created.  The call has its own tasks and its own local state; a task of an
\* earlier call that is still running stays running beside the new ones.
MonitorStart ==
    /\ mpc = "init"
    /\ leftover' = leftover \cup {s \in Sites : Running(s)}
    /\ IF sites_list = <<>>
       THEN /\ mpc' = "returned"
            /\ pc' = [s \in Sites |-> "idle"]
       ELSE /\ pc' = [s \in Sites |->
                        IF s \in TasksCreated(sites_list) THEN "request" ELSE "idle"]
            /\ mpc' = "await_coro"
    /\ attempt' = [s \in Sites |-> 0]
    /\ last_exception' = [s \in Sites |-> NoException]
    /\ last_outcome' = [s \in Sites |-> NoOutcome]
    /\ delay_arg' = [s \in Sites |-> 0]
    /\ delay' = [s \in Sites |-> 0]
    /\ result' = [s \in Sites |-> NoResult]
    /\ cancel_requested' = [s \in Sites |-> FALSE]
    /\ completed' = <<>>
    /\ done_queue' = <<>>
    /\ iter' = 0
    /\ current' = 0
    /\ logged' = <<>>
    /\ sink_failed' = {}
    /\ skipped' = {}
    /\ yielded' = <<>>
    /\ yielded_at_cancel' = 0
    /\ UNCHANGED <<appVars, sites_list, cfg, fnVars, objVars, countVars>>

\* `result = await coro`: the next done task is taken; a check that raised is
\* logged and skipped, a result goes to the sink
AwaitCoro ==
    /\ mpc = "await_coro"
    /\ done_queue # <<>>
    /\ LET k == QueueGet(done_queue)
           t == done_queue[k]
       IN /\ done_queue' = Without(done_queue, k)
          /\ iter' = iter + 1
          /\ IF pc[t] = "returned"
             THEN /\ current' = t
                  /\ mpc' = "log_result"
                  /\ UNCHANGED skipped
             ELSE /\ skipped' = skipped \cup {t}
                  /\ mpc' = AfterRaised(iter + 1)
                  /\ UNCHANGED current
    /\ UNCHANGED <<appVars, leftover, sites_list, cfg, fnVars, pc, attempt,
                   last_exception, last_outcome, delay_arg, delay, result,
                   cancel_requested, completed, logged, sink_failed, yielded,
                   yielded_at_cancel, objVars, countVars>>

\* SiteCheckResult.is_success
is_success(r) == r.status = SUCCESS

\* the body of the `async for` of _execute_monitoring_round: the outcome it was
\* given is counted as a success or as an error
CountResult(r) ==
    /\ success_count' = IF is_success(r) THEN success_count + 1 ELSE success_count
    /\ error_count' = IF is_success(r) THEN error_count ELSE error_count + 1

\* the sink returns without having recorded the result
SinkRecorded_lost(log, s) == log

\* `await self._logger.log_result(result)` returns: the sink has recorded the
\* result of site s
SinkRecorded(log, s) == Append(log, s)

\* a sink call that raised ends the round
AfterSinkRaised_abort(i) == "returned"

\* log_result raised: the inner handler logs "Site check failed" and the for loop
\* goes on with the next done task
AfterSinkRaised(i) == Continue(i)

\* log_result raises and the result is yielded all the same
LogRaises_yields ==
    /\ mpc = "log_result"
    /\ sink_failed' = sink_failed \cup {current}
    /\ yielded' = Append(yielded, [site |-> current, result |-> result[current]])
    /\ mpc' = "yield"
    /\ UNCHANGED <<appVars, leftover, sites_list, cfg, fnVars, pc, attempt,
                   last_exception, last_outcome, delay_arg, delay, result,
                   cancel_requested, completed, done_queue, iter, current,
                   logged, skipped, yielded_at_cancel, objVars, countVars>>

\* log_result returns and the result is yielded
LogReturns ==
    /\ mpc = "log_result"
    /\ logged' = SinkRecorded(logged, current)
    /\ yielded' = Append(yielded, [site |-> current, result |-> result[current]])
    /\ mpc' = "yield"
    /\ UNCHANGED <<appVars, leftover, sites_list, cfg, fnVars, pc, attempt,
                   last_exception, last_outcome, delay_arg, delay, result,
                   cancel_requested, completed, done_queue, iter, current,
                   sink_failed, skipped, yielded_at_cancel, objVars,
                   countVars>>

\* log_result raises: the inner handler logs the error and continues
LogRaises ==
    /\ mpc = "log_result"
    /\ sink_failed' = sink_failed \cup {current}
    /\ current' = 0
    /\ mpc' = AfterSinkRaised(iter)
    /\ UNCHANGED <<appVars, leftover, sites_list, cfg, fnVars, pc, attempt,
                   last_exception, last_outcome, delay_arg, delay, result,
                   cancel_requested, completed, done_queue, iter, logged,
                   skipped, yielded, yielded_at_cancel, objVars, countVars>>

\* the consumer has counted the outcome it was given and asks for the next one:
\* the generator resumes after the yield
Resume ==
    /\ mpc = "yield"
    /\ CountResult(yielded[Len(yielded)].result)
    /\ current' = 0
    /\ mpc' = Continue(iter)
    /\ UNCHANGED <<appVars, leftover, sites_list, cfg, fnVars, pc, attempt,
                   last_exception, last_outcome, delay_arg, delay, result,
                   cancel_requested, completed, done_queue, iter, logged,
                   sink_failed, skipped, yielded, yielded_at_cancel, objVars>>

\* CancelledError reaches monitor_sites at one of its awaits: the handler calls
\* cancel() on every task that is not done and awaits gather(*tasks).  (The
\* consumers of the generator, _execute_monitoring_round and the tests' list
\* comprehensions, do not await between two outcomes, so a cancellation of the
\* consuming task always arrives at an await inside monitor_sites.)
CancelRound ==
    /\ mpc \in {"await_coro", "log_result"}
    /\ cancel_requested' = [s \in Sites |-> cancel_requested[s] \/ s \in ToCancel]
    /\ yielded_at_cancel' = Len(yielded)
    /\ current' = 0
    /\ mpc' = "drain"
    /\ UNCHANGED <<appVars, leftover, sites_list, cfg, fnVars, pc, attempt,
                   last_exception, last_outcome, delay_arg, delay, result,
                   completed, done_queue, iter, logged, sink_failed, skipped,
                   yielded, objVars, countVars>>

\* gather(*tasks, return_exceptions=True) returns once every task is done; the
\* handler re-raises the CancelledError
DrainEnds ==
    /\ mpc = "drain"
    /\ GatherDone
    /\ mpc' = "cancelled"
    /\ UNCHANGED <<appVars, leftover, sites_list, cfg, fnVars, pc, attempt,
                   last_exception, last_outcome, delay_arg, delay, result,
                   cancel_requested, completed, done_queue, iter, current,
                   logged, sink_failed, skipped, yielded, yielded_at_cancel,
                   objVars, countVars>>

Init ==
    /\ InitNoObj
    /\ \E n \in 0..MaxSites : sites_list = [i \in 1..n |-> i]
    /\ \E c \in RoundRetryConfig : cfg = [s \in Sites |-> c]
    /\ pc = [s \in Sites |-> "idle"]
    /\ mpc = "init"
    /\ InitTask
    /\ InitRound
    /\ InitNoPolicy
    /\ InitNoContent
    /\ InitNoApp

Next ==
    \/ MonitorStart
    \/ \E s \in Sites : \E o \in RoundOutcomes : AttemptEnds(s, o)
    \/ \E s \in Sites : SleepEnds(s)
    \/ \E s \in Sites : TaskCancelled(s)
    \/ AwaitCoro
    \/ LogReturns
    \/ LogRaises
    \/ Resume
    \/ CancelRound
    \/ DrainEnds

Spec == Init /\ [][Next]_vars

----------------------------------------------------------------------------
(* MonitoringApplication.run and _run_monitoring_loop,                     *)
(* application/monitoring_app.py.  run() is one asyncio task: the round's  *)
(* generator runs inside it, so a cancellation of run() during a round is  *)
(* the CancelRound step of monitor_sites.                                  *)

\* largest number of rounds the loop starts
MaxRounds == 2

\* the check_interval argument of run(): none, or a number of seconds
CheckIntervals == {<<>>, <<-1>>, <<0>>, <<1>>}

\* the site lists of the application's configuration
AppSiteLists == {<<>>, <<1>>, <<1, 2>>}

\* the retry configuration of the application's sites: two attempts
AppRetryConfig == {c \in RoundRetryConfig : c.max_attempts = 2}

\* what the attempts of the application's checks end with: a good response or a
\* timeout
AppOutcomes == {o \in RoundOutcomes :
                   \/ o.kind = "timeout"
                   \/ o.kind = "response" /\ o.status = 200 /\ o.content_ok}

\* _prepare_configuration: with_overridden_interval raises ValueError
prepare_configuration_raises(ci) == ci # <<>> /\ ci[1] < 0

\* the handler catches whatever is raised
LoopCatches_all(exc) == TRUE

\* the handler catches nothing
LoopCatches_none(exc) == FALSE

\* the loop's handler is `except Exception`: asyncio.CancelledError is a
\* BaseException and passes it
LoopCatches(exc) == exc = "Exception"

\* `self._running = True`, after the session and the sink have been entered
RunningFlagAtEntry(flag) == TRUE

\* `if self._running: await asyncio.sleep(config.check_interval)`
SleepsAfterRound(flag) == flag

\* the sink is released only when the loop ends by itself
SinkReleased_on_return(how) == how = "returned"

\* `async with ..., self._logger as output_logger`: __aexit__ is called however
\* the block is left
SinkReleased(how) == TRUE

\* the with block of _run_monitoring_loop is left and run() ends: the sink is
\* released, and the finally clause of run() clears the flag
LeaveLoop(how) ==
    /\ sink_released' = sink_released + (IF SinkReleased(how) THEN 1 ELSE 0)
    /\ running' = FALSE
    /\ run_exit' = how
    /\ apc' = "exited"

\* run(check_interval) is called; a rejected interval ends it before the loop
Run(ci) ==
    /\ apc = "idle"
    /\ IF prepare_configuration_raises(ci)
       THEN /\ apc' = "exited"
            /\ run_exit' = "error"
            /\ running' = FALSE
       ELSE /\ apc' = "entering"
            /\ UNCHANGED <<run_exit, running>>
    /\ UNCHANGED <<round_number, rounds_started, stop_called,
                   cancel_delivered, sink_entered, sink_released, sites_list,
                   cfg, fnVars, taskVars, cancel_requested, roundVars,
                   leftover, objVars, countVars>>

\* the session and the sink are entered, then the flag is set and round_number
\* starts at 1
EnterLoop ==
    /\ apc = "entering"
    /\ sink_entered' = sink_entered + 1
    /\ running' = RunningFlagAtEntry(running)
    /\ round_number' = 1
    /\ apc' = "loop"
    /\ UNCHANGED <<rounds_started, stop_called, cancel_delivered, run_exit,
                   sink_released, sites_list, cfg, fnVars, taskVars,
                   cancel_requested, roundVars, leftover, objVars,
                   countVars>>

\* `while True`: a round is started whatever the flag
LoopCheck_forever ==
    /\ apc = "loop"
    /\ rounds_started < MaxRounds
    /\ rounds_started' = rounds_started + 1
    /\ apc' = "round"
    /\ mpc' = "init"
    /\ success_count' = 0
    /\ error_count' = 0
    /\ UNCHANGED <<running, run_exit, sink_released, round_number, stop_called,
                   cancel_delivered, sink_entered, sites_list, cfg, fnVars,
                   taskVars, cancel_requested, iter, current, logged,
                   sink_failed, skipped, yielded, yielded_at_cancel, leftover,
                   objVars>>

\* `while self._running`: a round is started by calling monitor_sites, or the
\* loop ends
LoopCheck ==
    /\ apc = "loop"
    /\ IF running
       THEN /\ rounds_started < MaxRounds
            /\ rounds_started' = rounds_started + 1
            /\ apc' = "round"
            /\ mpc' = "init"
            /\ success_count' = 0
            /\ error_count' = 0
            /\ UNCHANGED <<running, run_exit, sink_released>>
       ELSE /\ LeaveLoop("returned")
            /\ UNCHANGED <<rounds_started, mpc, countVars>>
    /\ UNCHANGED <<round_number, stop_called, cancel_delivered, sink_entered,
                   sites_list, cfg, fnVars, taskVars, cancel_requested, iter,
                   current, logged, sink_failed, skipped, yielded,
                   yielded_at_cancel, leftover, objVars>>

\* the generator is exhausted: _execute_monitoring_round returns, the round's
\* completion is logged, and the loop sleeps check_interval if the flag is set
RoundReturns ==
    /\ apc = "round"
    /\ mpc = "returned"
    /\ IF SleepsAfterRound(running)
       THEN /\ apc' = "interval_sleep"
            /\ UNCHANGED round_number
       ELSE /\ apc' = "loop"
            /\ round_number' = round_number + 1
    /\ UNCHANGED <<running, rounds_started, stop_called, cancel_delivered,
                   run_exit, sink_entered, sink_released, sites_list, cfg,
                   fnVars, taskVars, cancel_requested, roundVars, leftover,
                   objVars, countVars>>

\* an exception is raised in the body of the round, between two outcomes or
\* after the last one.  Between two outcomes the generator is left suspended at
\* its yield: no handler of monitor_sites runs and its tasks go on.  The body
\* counts an outcome before it logs it, so the outcome it raised on is counted.
RoundBodyRaises ==
    /\ apc = "round"
    /\ mpc \in {"yield", "returned"}
    /\ mpc' = IF mpc = "yield" THEN "abandoned" ELSE mpc
    /\ IF mpc = "yield"
       THEN CountResult(yielded[Len(yielded)].result)
       ELSE UNCHANGED countVars
    /\ IF LoopCatches("Exception")
       THEN /\ apc' = "error_pause"
            /\ UNCHANGED <<running, run_exit, sink_released>>
       ELSE LeaveLoop("error")
    /\ UNCHANGED <<round_number, rounds_started, stop_called,
                   cancel_delivered, sink_entered, sites_list, cfg, fnVars,
                   taskVars, cancel_requested, iter, current, logged,
                   sink_failed, skipped, yielded, yielded_at_cancel,
                   leftover, objVars>>

\* monitor_sites re-raised the CancelledError: it passes the loop's handler
RoundCancelled ==
    /\ apc = "round"
    /\ mpc = "cancelled"
    /\ cancel_delivered' = TRUE
    /\ IF LoopCatches("CancelledError")
       THEN /\ apc' = "error_pause"
            /\ UNCHANGED <<running, run_exit, sink_released>>
       ELSE LeaveLoop("cancelled")
    /\ UNCHANGED <<round_number, rounds_started, stop_called, sink_entered,
                   sites_list, cfg, fnVars, taskVars, cancel_requested,
                   roundVars, leftover, objVars, countVars>>

\* asyncio.sleep(config.check_interval) returns
IntervalSleepEnds ==
    /\ apc = "interval_sleep"
    /\ round_number' = round_number + 1
    /\ apc' = "loop"
    /\ UNCHANGED <<running, rounds_started, stop_called, cancel_delivered,
                   run_exit, sink_entered, sink_released, sites_list, cfg,
                   fnVars, taskVars, cancel_requested, roundVars, leftover,
                   objVars, countVars>>

\* asyncio.sleep(5) of the handler returns; round_number is not advanced
ErrorPauseEnds ==
    /\ apc = "error_pause"
    /\ apc' = "loop"
    /\ UNCHANGED <<running, round_number, rounds_started, stop_called,
                   cancel_delivered, run_exit, sink_entered, sink_released,
                   sites_list, cfg, fnVars, taskVars, cancel_requested,
                   roundVars, leftover, objVars, countVars>>

\* run() is cancelled during a sleep.  The sleep between rounds is inside the
\* try block; the pause after an error is inside the handler itself.
CancelSleep ==
    /\ apc \in {"interval_sleep", "error_pause"}
    /\ cancel_delivered' = TRUE
    /\ IF apc = "interval_sleep" /\ LoopCatches("CancelledError")
       THEN /\ apc' = "error_pause"
            /\ UNCHANGED <<running, run_exit, sink_released>>
       ELSE LeaveLoop("cancelled")
    /\ UNCHANGED <<round_number, rounds_started, stop_called, sink_entered,
                   sites_list, cfg, fnVars, taskVars, cancel_requested,
                   roundVars, leftover, objVars, countVars>>

\* stop() is called from outside the task of run()
Stop ==
    /\ apc \notin {"idle", "exited"}
    /\ ~stop_called
    /\ running' = FALSE
    /\ stop_called' = TRUE
    /\ UNCHANGED <<apc, round_number, rounds_started, cancel_delivered,
                   run_exit, sink_entered, sink_released, sites_list, cfg,
                   fnVars, taskVars, cancel_requested, roundVars, leftover,
                   objVars, countVars>>

\* a task an abandoned round left behind ends
LeftoverEnds(s) ==
    /\ s \in leftover
    /\ leftover' = leftover \ {s}
    /\ UNCHANGED <<appVars, sites_list, cfg, fnVars, taskVars,
                   cancel_requested, roundVars, objVars, countVars>>

InitApp ==
    /\ InitNoObj
    /\ sites_list \in AppSiteLists
    /\ \E c \in AppRetryConfig : cfg = [s \in Sites |-> c]
    /\ pc = [s \in Sites |-> "idle"]
    /\ mpc = "none"
    /\ InitTask
    /\ InitRound
    /\ InitNoPolicy
    /\ InitNoContent
    /\ apc = "idle"
    /\ running = FALSE
    /\ round_number = 0
    /\ rounds_started = 0
    /\ stop_called = FALSE
    /\ cancel_delivered = FALSE
    /\ run_exit = None
    /\ sink_entered = 0
    /\ sink_released = 0

NextApp ==
    \/ \E ci \in CheckIntervals : Run(ci)
    \/ EnterLoop
    \/ LoopCheck
    \/ MonitorStart
    \/ \E s \in Sites : \E o \in AppOutcomes : AttemptEnds(s, o)
    \/ \E s \in Sites : SleepEnds(s)
    \/ \E s \in Sites : TaskCancelled(s)
    \/ AwaitCoro
    \/ LogReturns
    \/ LogRaises
    \/ Resume
    \/ CancelRound
    \/ DrainEnds
    \/ RoundReturns
    \/ RoundBodyRaises
    \/ RoundCancelled
    \/ IntervalSleepEnds
    \/ ErrorPauseEnds
    \/ CancelSleep
    \/ Stop
    \/ \E s \in Sites : LeftoverEnds(s)

SpecApp == InitApp /\ [][NextApp]_vars

\* rounds and sleeps terminate: every request, backoff sleep, sink call and
\* sleep of the loop ends, and every step that waits for nothing is taken
FairApp ==
    /\ WF_vars(EnterLoop)
    /\ WF_vars(LoopCheck)
    /\ WF_vars(MonitorStart)
    /\ \A s \in Sites : WF_vars(\E o \in AppOutcomes : AttemptEnds(s, o))
    /\ \A s \in Sites : WF_vars(SleepEnds(s))
    /\ \A s \in Sites : WF_vars(TaskCancelled(s))
    /\ WF_vars(AwaitCoro)
    /\ WF_vars(LogReturns \/ LogRaises)
    /\ WF_vars(Resume)
    /\ WF_vars(DrainEnds)
    /\ WF_vars(RoundReturns)
    /\ WF_vars(RoundCancelled)
    /\ WF_vars(IntervalSleepEnds)
    /\ WF_vars(ErrorPauseEnds)

SpecAppFair == SpecApp /\ FairApp

----------------------------------------------------------------------------
(* RetryConfig on its own: construction and calculate_delay,               *)
(* domain/models/config.py                                                 *)

\* largest attempt number calculate_delay is called with
MaxDelayAttempt == 3

\* largest number of calculate_delay calls on one RetryConfig
MaxDelayCalls == 2

\* the delay arguments of the constructor, in milliseconds
BaseDelays == {0, 1000, 10000}

MaxDelays == {1000, 11000}

\* the backoff_multiplier arguments of the constructor, in tenths
Multipliers == {0, 5, 10, 20}

\* the arguments RetryConfig(...) is called with
PolicyArgs == [state : {"args"},
               strategy : RetryStrategy,
               base_delay_seconds : BaseDelays,
               max_delay_seconds : MaxDelays,
               backoff_multiplier : Multipliers,
               jitter : BOOLEAN]

\* the attempt numbers calculate_delay is called with
DelayAttempts == (-1)..MaxDelayAttempt

\* the retry configuration of a site while no check is looked at
IdleRetryConfig == CHOOSE c \in RoundRetryConfig : c.max_attempts = 1

\* pydantic rejects a field: NonNegativeFloat delays, PositiveFloat multiplier
field_validation_raises(a) ==
    \/ a.base_delay_seconds < 0
    \/ a.max_delay_seconds < 0
    \/ a.backoff_multiplier <= 0

\* __post_init__, rejecting equal delays too
post_init_raises_on_equal(a) == a.max_delay_seconds <= a.base_delay_seconds

\* RetryConfig.__post_init__ raises ValueError
post_init_raises(a) == a.max_delay_seconds < a.base_delay_seconds

\* RetryConfig(...): the fields are validated, then __post_init__ runs
ConstructPolicy ==
    /\ policy.state = "args"
    /\ policy' = [policy EXCEPT !.state =
                     IF field_validation_raises(policy) \/ post_init_raises(policy)
                     THEN "rejected" ELSE "constructed"]
    /\ UNCHANGED <<delay_calls, requirement, content, match_result, site,
                   site_result, sites_list, cfg, taskVars, cancel_requested,
                   roundVars, leftover, appVars, objVars, countVars>>

\* policy.calculate_delay(n) is called; random.uniform draws f when jitter is on
CalculateDelay(n, f) ==
    /\ policy.state = "constructed"
    /\ Len(delay_calls) < MaxDelayCalls
    /\ f \in JitterDraws(policy)
    /\ delay_calls' = Append(delay_calls,
                             [attempt |-> n, factor |-> f,
                              value |-> calculate_delay(policy, n, f)])
    /\ UNCHANGED <<policy, requirement, content, match_result, site,
                   site_result, sites_list, cfg, taskVars, cancel_requested,
                   roundVars, leftover, appVars, objVars, countVars>>

\* no site check, no round and no application
InitIdle ==
    /\ sites_list = <<>>
    /\ cfg = [s \in Sites |-> IdleRetryConfig]
    /\ pc = [s \in Sites |-> "idle"]
    /\ mpc = "none"
    /\ InitTask
    /\ InitRound
    /\ InitNoApp

InitDelay ==
    /\ InitNoObj
    /\ InitIdle
    /\ InitNoContent
    /\ policy \in PolicyArgs
    /\ delay_calls = <<>>

NextDelay ==
    \/ ConstructPolicy
    \/ \E n \in DelayAttempts : \E f \in JitterFactors : CalculateDelay(n, f)

SpecDelay == InitDelay /\ [][NextDelay]_vars

----------------------------------------------------------------------------
(* ContentRequirement on its own: construction and matches,                *)
(* domain/models/content.py.  A string is a sequence of characters.        *)

\* longest pattern a ContentRequirement is constructed with
MaxPatternLen == 2

\* longest response body
MaxBodyLen == 3

\* the characters of a pattern: letters, the two wildcards and white space
PatternChars == {"a", "A", "*", "?", " "}

\* the characters of a body
BodyChars == {"a", "A"}

Strings(chars, n) == UNION {[1..k -> chars] : k \in 0..n}

Patterns == Strings(PatternChars, MaxPatternLen)

Bodies == Strings(BodyChars, MaxBodyLen)

\* the arguments ContentRequirement(...) is called with
RequirementArgs == [state : {"args"},
                    pattern : Patterns,
                    use_wildcards : BOOLEAN,
                    case_sensitive : BOOLEAN]

\* str.lower()
lower(s) == [i \in 1..Len(s) |-> IF s[i] = "A" THEN "a" ELSE s[i]]

\* str.strip(): white space is removed at both ends
RECURSIVE strip(_)
strip(s) ==
    IF s = <<>> THEN s
    ELSE IF Head(s) = " " THEN strip(Tail(s))
    ELSE IF s[Len(s)] = " " THEN strip(SubSeq(s, 1, Len(s) - 1))
    ELSE s

\* the operator in of str: sub occurs in s
contains(s, sub) ==
    \E i \in 0..(Len(s) - Len(sub)) : SubSeq(s, i + 1, i + Len(sub)) = sub

\* fnmatch, the pattern matching a prefix of the name
RECURSIVE fnmatch_prefix(_, _)
fnmatch_prefix(name, pat) ==
    IF pat = <<>> THEN TRUE
    ELSE IF Head(pat) = "*"
         THEN \/ fnmatch_prefix(name, Tail(pat))
              \/ name # <<>> /\ fnmatch_prefix(Tail(name), pat)
    ELSE /\ name # <<>>
         /\ Head(pat) = "?" \/ Head(pat) = Head(name)
         /\ fnmatch_prefix(Tail(name), Tail(pat))

\* fnmatch, * matching one character or more
RECURSIVE fnmatch_star_nonempty(_, _)
fnmatch_star_nonempty(name, pat) ==
    IF pat = <<>> THEN name = <<>>
    ELSE IF Head(pat) = "*"
         THEN /\ name # <<>>
              /\ \/ fnmatch_star_nonempty(Tail(name), Tail(pat))
                 \/ fnmatch_star_nonempty(Tail(name), pat)
    ELSE /\ name # <<>>
         /\ Head(pat) = "?" \/ Head(pat) = Head(name)
         /\ fnmatch_star_nonempty(Tail(name), Tail(pat))

\* fnmatch.fnmatch(name, pat): the whole name against the whole pattern
RECURSIVE fnmatch(_, _)
fnmatch(name, pat) ==
    IF pat = <<>> THEN name = <<>>
    ELSE IF Head(pat) = "*"
         THEN \/ fnmatch(name, Tail(pat))
              \/ name # <<>> /\ fnmatch(Tail(name), pat)
    ELSE /\ name # <<>>
         /\ Head(pat) = "?" \/ Head(pat) = Head(name)
         /\ fnmatch(Tail(name), Tail(pat))

\* ContentRequirement.validate_pattern raises
validate_pattern_raises(v) == strip(v) = <<>>

\* ContentRequirement.matches(content)
matches(req, text) ==
    LET text_to_check == IF req.case_sensitive THEN text ELSE lower(text)
        pattern_to_use == IF req.case_sensitive THEN req.pattern
                          ELSE lower(req.pattern)
    IN IF req.use_wildcards THEN fnmatch(text_to_check, pattern_to_use)
       ELSE contains(text_to_check, pattern_to_use)

\* ContentRequirement(...): validate_pattern rejects or strips the pattern
ConstructRequirement ==
    /\ requirement.state = "args"
    /\ requirement' =
          IF validate_pattern_raises(requirement.pattern)
          THEN [requirement EXCEPT !.state = "rejected"]
          ELSE [requirement EXCEPT !.state = "constructed",
                                   !.pattern = strip(requirement.pattern)]
    /\ UNCHANGED <<policy, delay_calls, content, match_result, site,
                   site_result, sites_list, cfg, taskVars, cancel_requested,
                   roundVars, leftover, appVars, objVars, countVars>>

\* requirement.matches(body) is called
Matches(body) ==
    /\ requirement.state = "constructed"
    /\ content' = body
    /\ match_result' = <<matches(requirement, body)>>
    /\ UNCHANGED <<policy, delay_calls, requirement, site, site_result,
                   sites_list, cfg, taskVars, cancel_requested, roundVars,
                   leftover, appVars, objVars, countVars>>

InitMatch ==
    /\ InitNoObj
    /\ InitIdle
    /\ InitNoPolicy
    /\ requirement \in RequirementArgs
    /\ content = <<>>
    /\ match_result = <<>>
    /\ site = Absent
    /\ site_result = Absent

NextMatch ==
    \/ ConstructRequirement
    \/ \E body \in Bodies : Matches(body)

SpecMatch == InitMatch /\ [][NextMatch]_vars

----------------------------------------------------------------------------
(* SiteConfig on its own: construction and check_content_requirements,     *)
(* domain/models/config.py                                                 *)

\* largest number of content requirements of a site
MaxReqs == 2

\* a ContentRequirement that was constructed
Requirement(p, w, cs) ==
    [state |-> "constructed", pattern |-> p, use_wildcards |-> w,
     case_sensitive |-> cs]

\* a requirement given as a str
StrRequirement(p) ==
    [state |-> "str", pattern |-> p, use_wildcards |-> FALSE,
     case_sensitive |-> TRUE]

\* the requirements a SiteConfig is constructed with
SiteRequirements ==
    {Requirement(<<"a">>, FALSE, TRUE),
     Requirement(<<"A">>, FALSE, FALSE),
     Requirement(<<"A", "A">>, FALSE, TRUE),
     Requirement(<<"a", "?">>, TRUE, TRUE),
     StrRequirement(<<"A", " ">>),
     StrRequirement(<<" ">>)}

\* the arguments SiteConfig(...) is called with
SiteArgs == [state : {"args"},
             content_requirements :
                 UNION {[1..k -> SiteRequirements] : k \in 0..MaxReqs},
             require_all_content : BOOLEAN]

\* ContentRequirement(pattern=req) for a str, the requirement itself otherwise
converted(req) ==
    IF req.state = "str" THEN Requirement(strip(req.pattern), FALSE, TRUE)
    ELSE req

\* SiteConfig.__post_init__ raises: no requirement, or a str that is blank
site_post_init_raises(a) ==
    \/ a.content_requirements = <<>>
    \/ \E i \in 1..Len(a.content_requirements) :
          /\ a.content_requirements[i].state = "str"
          /\ validate_pattern_raises(a.content_requirements[i].pattern)

\* check_content_requirements, leaving the loop at the first failed requirement
RECURSIVE failed_patterns_first(_, _)
failed_patterns_first(reqs, text) ==
    IF reqs = <<>> THEN <<>>
    ELSE IF ~matches(Head(reqs), text) THEN <<Head(reqs).pattern>>
    ELSE failed_patterns_first(Tail(reqs), text)

\* the loop of check_content_requirements: every requirement is looked at
RECURSIVE failed_patterns(_, _)
failed_patterns(reqs, text) ==
    IF reqs = <<>> THEN <<>>
    ELSE (IF ~matches(Head(reqs), text) THEN <<Head(reqs).pattern>> ELSE <<>>)
            \o failed_patterns(Tail(reqs), text)

\* SiteConfig.check_content_requirements(content)
check_content_requirements(s, text) ==
    LET failed == failed_patterns(s.content_requirements, text)
        success == IF s.require_all_content THEN Len(failed) = 0
                   ELSE Len(failed) < Len(s.content_requirements)
    IN [state |-> "returned", success |-> success, failed_patterns |-> failed]

\* SiteConfig(...): __post_init__ rejects or converts the requirements
ConstructSite ==
    /\ site.state = "args"
    /\ site' =
          IF site_post_init_raises(site)
          THEN [site EXCEPT !.state = "rejected"]
          ELSE [site EXCEPT !.state = "constructed",
                            !.content_requirements =
                                [i \in 1..Len(site.content_requirements) |->
                                    converted(site.content_requirements[i])]]
    /\ UNCHANGED <<policy, delay_calls, requirement, content, match_result,
                   site_result, sites_list, cfg, taskVars, cancel_requested,
                   roundVars, leftover, appVars, objVars, countVars>>

\* site.check_content_requirements(body) is called
CheckContentRequirements(body) ==
    /\ site.state = "constructed"
    /\ content' = body
    /\ site_result' = check_content_requirements(site, body)
    /\ UNCHANGED <<policy, delay_calls, requirement, match_result, site,
                   sites_list, cfg, taskVars, cancel_requested, roundVars,
                   leftover, appVars, objVars, countVars>>

\* every requirement has to match, whatever require_all says
checker_check_content_requirements_all(text, requirements, require_all) ==
    \A i \in 1..Len(requirements) :
        IF requirements[i].state = "str"
        THEN contains(text, requirements[i].pattern)
        ELSE matches(requirements[i], text)

\* HttpSiteChecker._check_content_requirements(content, requirements,
\* require_all): all, or any, of the requirements match; a ContentRequirement
\* by its matches, a str as a substring
checker_check_content_requirements(text, requirements, require_all) ==
    LET ok(req) == IF req.state = "str" THEN contains(text, req.pattern)
                   ELSE matches(req, text)
    IN IF requirements = <<>> THEN TRUE
       ELSE IF require_all
            THEN \A i \in 1..Len(requirements) : ok(requirements[i])
            ELSE \E i \in 1..Len(requirements) : ok(requirements[i])

\* _perform_single_check got a response whose status is below 400, after ms
\* milliseconds and with the body text: the content check decides between
\* SUCCESS and CONTENT_ERROR
ResponseChecked(text, ms) ==
    /\ site.state = "constructed"
    /\ response_text' = text
    /\ LET passed == checker_check_content_requirements(
                        text, site.content_requirements, site.require_all_content)
       IN /\ content_check_passed' = <<passed>>
          /\ check_result' =
                IF passed THEN SiteCheckResult(SUCCESS, ms, None)
                ELSE SiteCheckResult(CONTENT_ERROR, ms, "Content requirements not met")
    /\ UNCHANGED <<fnVars, config_file, load_result, monitoring_config,
                   overridden, sites_list, cfg, taskVars, cancel_requested,
                   roundVars, leftover, appVars, countVars>>

InitSite ==
    /\ InitNoObj
    /\ InitIdle
    /\ InitNoPolicy
    /\ requirement = Absent
    /\ content = <<>>
    /\ match_result = <<>>
    /\ site \in SiteArgs
    /\ site_result = Absent

NextSite ==
    \/ ConstructSite
    \/ \E body \in Bodies : CheckContentRequirements(body)

SpecSite == InitSite /\ [][NextSite]_vars

\* a site is constructed and the checker handles responses of it
NextResponse ==
    \/ ConstructSite
    \/ \E body \in Bodies : \E ms \in ElapsedMs : ResponseChecked(body, ms)

SpecResponse == InitSite /\ [][NextResponse]_vars

----------------------------------------------------------------------------
(* FileConfigLoader.load_config, infrastructure/persistence/config.py.     *)
(* A file is described by what the loader's steps find in it.              *)

\* largest number of entries under the key sites
MaxLoadSites == 2

\* config_path.suffix
Suffixes == {".yaml", ".yml", ".json", ".JSON", ".txt"}

\* str.lower() of a suffix
suffix_lower(s) == IF s = ".JSON" THEN ".json" ELSE s

\* what parsing the text gives: a syntax error, a value that is no mapping (a
\* scalar, a list, null), an empty mapping or a mapping with keys
Texts == {"malformed", "no_mapping", "empty_mapping", "mapping"}

\* the key retry of the file: absent, or a mapping whose strategy is or is not
\* the name of a RetryStrategy
RetryKeys == {"absent", "valid", "invalid_strategy"}

\* the key url of a site entry
UrlKeys == {"valid", "absent", "malformed"}

\* an entry of content_requirements: a str, a mapping, or a number
EntryKinds == {"str", "mapping", "number"}

\* the lists under content_requirements (an absent key reads as the empty list)
RequirementLists ==
    {<<>>, <<"str">>, <<"mapping">>, <<"number">>, <<"str", "number">>,
     <<"number", "str">>, <<"number", "number">>}

\* an entry under sites
SiteEntries == [url : UrlKeys, content_requirements : RequirementLists]

SiteEntryLists == UNION {[1..k -> SiteEntries] : k \in 0..MaxLoadSites}

\* a file whose text is never parsed into a mapping with keys
PlainFile(e, b, sfx, txt) ==
    [state |-> "file", exists |-> e, blank |-> b, suffix |-> sfx, text |-> txt,
     retry |-> "absent", sites |-> <<>>]

\* the files load_config is called on
ConfigFiles ==
    {PlainFile(FALSE, FALSE, ".yaml", "mapping")}
    \cup {PlainFile(TRUE, TRUE, sfx, "mapping") : sfx \in Suffixes}
    \cup {PlainFile(TRUE, FALSE, sfx, txt) :
             sfx \in Suffixes, txt \in Texts \ {"mapping"}}
    \cup [state : {"file"}, exists : {TRUE}, blank : {FALSE}, suffix : Suffixes,
          text : {"mapping"}, retry : RetryKeys, sites : SiteEntryLists]

\* load_config raised an exception of class kind
Raised(kind) == [state |-> "raised", kind |-> kind, config |-> <<>>]

\* load_config returned the MonitoringConfig with these sites
Loaded(sites) == [state |-> "returned", kind |-> None, config |-> <<sites>>]

\* the loop of _parse_site_config over content_requirements: a ContentRequirement
\* for a str and for a mapping, nothing for another entry
RECURSIVE parsed_requirements(_)
parsed_requirements(entries) ==
    IF entries = <<>> THEN <<>>
    ELSE (IF Head(entries) \in {"str", "mapping"} THEN <<Head(entries)>> ELSE <<>>)
            \o parsed_requirements(Tail(entries))

\* _parse_site_config: site_data["url"] raises KeyError, SiteConfig(...) raises
\* ValidationError for a malformed url, and after it for an empty list
parse_site_config(entry) ==
    LET reqs == parsed_requirements(entry.content_requirements)
    IN IF entry.url = "absent" THEN [raised |-> "KeyError", site |-> <<>>]
       ELSE IF entry.url = "malformed" \/ reqs = <<>>
            THEN [raised |-> "ValidationError", site |-> <<>>]
       ELSE [raised |-> None, site |-> reqs]

\* the loop of _parse_config, a site that fails being left out
RECURSIVE parse_sites_skipping(_)
parse_sites_skipping(entries) ==
    IF entries = <<>> THEN [raised |-> None, sites |-> <<>>]
    ELSE LET first == parse_site_config(Head(entries))
             rest == parse_sites_skipping(Tail(entries))
         IN IF first.raised # None THEN rest
            ELSE [raised |-> rest.raised, sites |-> <<first.site>> \o rest.sites]

\* the loop of _parse_config over the sites: the first exception ends it
RECURSIVE parse_sites(_)
parse_sites(entries) ==
    IF entries = <<>> THEN [raised |-> None, sites |-> <<>>]
    ELSE LET first == parse_site_config(Head(entries))
         IN IF first.raised # None THEN [raised |-> first.raised, sites |-> <<>>]
            ELSE LET rest == parse_sites(Tail(entries))
                 IN [raised |-> rest.raised,
                     sites |-> IF rest.raised # None THEN <<>>
                               ELSE <<first.site>> \o rest.sites]

\* _parse_config
parse_config(f) ==
    IF f.retry = "invalid_strategy" THEN Raised("InvalidRetryStrategyError")
    ELSE LET parsed == parse_sites(f.sites)
         IN IF parsed.raised # None THEN Raised(parsed.raised)
            ELSE IF parsed.sites = <<>> THEN Raised("ValueError")
            ELSE Loaded(parsed.sites)

\* FileConfigLoader.load_config(config_path)
load_config(f) ==
    IF ~f.exists THEN Raised("FileNotFoundError")
    ELSE IF f.blank THEN Raised("ValueError")
    ELSE IF suffix_lower(f.suffix) \notin {".yaml", ".yml", ".json"}
         THEN Raised("InvalidFileFormatError")
    ELSE IF f.text = "malformed"
         THEN IF suffix_lower(f.suffix) = ".json"
              THEN Raised("InvalidJsonConfigError") ELSE Raised("YAMLError")
    ELSE IF f.text \in {"no_mapping", "empty_mapping"} THEN Raised("ValueError")
    ELSE parse_config(f)

\* loader.load_config(config_path) is called
LoadConfig ==
    /\ config_file.state = "file"
    /\ load_result = Absent
    /\ load_result' = load_config(config_file)
    /\ UNCHANGED <<config_file, monitoring_config, overridden,
                   response_text, content_check_passed, check_result, fnVars,
                   sites_list, cfg,
                   taskVars, cancel_requested, roundVars, leftover, appVars,
                   countVars>>

InitLoad ==
    /\ InitIdle
    /\ InitNoPolicy
    /\ InitNoContent
    /\ config_file \in ConfigFiles
    /\ load_result = Absent
    /\ monitoring_config = Absent
    /\ overridden = Absent
    /\ response_text = <<>>
    /\ content_check_passed = <<>>
    /\ check_result = Absent

NextLoad == LoadConfig

SpecLoad == InitLoad /\ [][NextLoad]_vars

----------------------------------------------------------------------------
(* MonitoringConfig.with_overridden_interval, domain/models/config.py *)

\* largest check interval, in seconds
MaxInterval == 6

\* the MonitoringConfig objects the method is called on
MonitoringConfigs == [state : {"constructed"}, check_interval : 0..MaxInterval]

\* the arguments of with_overridden_interval: an int, or a value of another type
\* (a float, a str) standing for the number value
Intervals == [is_int : BOOLEAN, value : (-2)..MaxInterval]

\* with_overridden_interval(interval) raises ValueError
overridden_interval_raises(i) == ~i.is_int \/ i.value < 0

\* MonitoringConfig.with_overridden_interval(interval): the new config, or the
\* error raised
with_overridden_interval(c, i) ==
    IF overridden_interval_raises(i)
    THEN [state |-> "raised", interval |-> i, check_interval |-> 0]
    ELSE [state |-> "returned", interval |-> i, check_interval |-> i.value]

\* monitoring_config.with_overridden_interval(i) is called
WithOverriddenInterval(i) ==
    /\ monitoring_config.state = "constructed"
    /\ overridden' = with_overridden_interval(monitoring_config, i)
    /\ UNCHANGED <<monitoring_config, config_file, load_result,
                   response_text, content_check_passed, check_result, fnVars,
                   sites_list, cfg,
                   taskVars, cancel_requested, roundVars, leftover, appVars,
                   countVars>>

InitInterval ==
    /\ InitIdle
    /\ InitNoPolicy
    /\ InitNoContent
    /\ config_file = Absent
    /\ load_result = Absent
    /\ monitoring_config \in MonitoringConfigs
    /\ overridden = Absent
    /\ response_text = <<>>
    /\ content_check_passed = <<>>
    /\ check_result = Absent

NextInterval == \E i \in Intervals : WithOverriddenInterval(i)

SpecInterval == InitInterval /\ [][NextInterval]_vars

----------------------------------------------------------------------------
(* Vocabulary of the properties *)

\* number of HTTP attempts check_site has started for site s
Attempts(s) == IF pc[s] = "idle" THEN 0 ELSE attempt[s] + 1

\* the attempt ended with an HTTP error status
HttpError(o) == o.kind = "response" /\ o.status >= 400

\* the attempt ended, and not with a response that passes the content check
Failed(o) == o.kind # None /\ ~(o.kind = "response" /\ o.status < 400 /\ o.content_ok)

\* the attempt got a response below 400 whose body fails the content requirements
ContentMismatch(o) == o.kind = "response" /\ o.status < 400 /\ ~o.content_ok

\* the retry rule: attempt n (1-based) ended with o under configuration c
RetryExpected(o, c, n) ==
    /\ c.enabled
    /\ n < c.max_attempts
    /\ \/ o.kind = "timeout" /\ c.retry_on_timeout
       \/ o.kind \in {"connector", "client"} /\ c.retry_on_connection_error
       \/ HttpError(o) /\ o.status \in c.retry_on_status_codes

\* the status a failed attempt is reported with
Classification(o) ==
    CASE o.kind = "timeout" -> TIMEOUT_ERROR
      [] ContentMismatch(o) -> CONTENT_ERROR
      [] OTHER -> CONNECTION_ERROR

Pos(q, x) == CHOOSE i \in 1..Len(q) : q[i] = x

YieldedSites == {yielded[i].site : i \in 1..Len(yielded)}

----------------------------------------------------------------------------
(* Properties of check_site, checked under SpecCheck *)

C2_RetryIff ==
    LET o == last_outcome[1]
        retry == RetryExpected(o, cfg[1], Attempts(1))
    IN /\ pc[1] = "sleep" => retry
       /\ (pc[1] \in {"returned", "raised"} /\ Failed(o)) => ~retry
       /\ (pc[1] \in {"returned", "raised"} /\ ~cfg[1].enabled) => Attempts(1) = 1

C2_Witness ==
    /\ pc[1] = "sleep"
    /\ last_outcome[1].kind = "timeout"
    /\ cfg[1].retry_on_timeout
    /\ ~cfg[1].retry_on_connection_error
    /\ cfg[1].retry_on_status_codes = {}
    /\ Attempts(1) = 2

\* C3: a response below 400 whose body fails the content requirements ends the
\* check at that attempt with a CONTENT_ERROR result: no backoff sleep follows and
\* no further attempt, whatever the retry configuration.
C3_ContentMismatchTerminal ==
    ContentMismatch(last_outcome[1]) =>
        /\ pc[1] = "returned"
        /\ result[1].status = CONTENT_ERROR
        /\ delay_arg[1] = attempt[1]

C3_Witness ==
    /\ ContentMismatch(last_outcome[1])
    /\ pc[1] = "returned"
    /\ cfg[1].enabled
    /\ cfg[1].max_attempts = 3
    /\ Attempts(1) = 2

\* C4: when the last attempt ends with an HTTP status >= 500, or with a status
\* listed in retry_on_status_codes, the returned outcome has status SERVER_ERROR.
C4_ServerErrorStatus ==
    ( /\ pc[1] = "returned"
      /\ HttpError(last_outcome[1])
      /\ \/ last_outcome[1].status >= 500
         \/ last_outcome[1].status \in cfg[1].retry_on_status_codes )
    => result[1].status = SERVER_ERROR

\* C5: when the last attempt receives HTTP status 404, the returned outcome has
\* status NOT_FOUND.
C5_NotFoundStatus ==
    (pc[1] = "returned" /\ HttpError(last_outcome[1]) /\ last_outcome[1].status = 404)
    => result[1].status = NOT_FOUND

----------------------------------------------------------------------------
(* Properties of monitor_sites, checked under Spec *)

\* C6: a round that ends with no check having raised and no sink call having
\* raised has yielded exactly one outcome per site, each the result its check
\* returned, a site that used up its attempts contributing the failure of its last
\* attempt; a round over no sites yields nothing, starts no check and makes no
\* sink call.
C6_OneOutcomePerSite ==
    /\ (mpc = "returned" /\ skipped = {} /\ sink_failed = {}) =>
          /\ Len(yielded) = Len(sites_list)
          /\ YieldedSites = Range(sites_list)
          /\ \A i \in 1..Len(yielded) :
                LET s == yielded[i].site IN
                /\ pc[s] = "returned"
                /\ yielded[i].result = result[s]
                /\ result[s].status \in CheckStatus
                /\ (Attempts(s) = cfg[s].max_attempts /\ Failed(last_outcome[s]))
                      => result[s].status = Classification(last_outcome[s])
    /\ sites_list = <<>> =>
          /\ yielded = <<>>
          /\ logged = <<>>
          /\ sink_failed = {}
          /\ mpc \in {"init", "returned"}
          /\ \A s \in Sites : pc[s] = "idle"

C6_Witness ==
    /\ mpc = "returned"
    /\ skipped = {}
    /\ sink_failed = {}
    /\ Len(yielded) = 2
    /\ result[1].status = SUCCESS
    /\ Attempts(1) = 1
    /\ Attempts(2) = 2
    /\ last_outcome[2].kind = "timeout"
    /\ result[2].status = TIMEOUT_ERROR

\* C7: every site's check is started before monitor_sites waits for a result, so
\* no site's check is still to be started while another site's check is requesting,
\* sleeping between attempts or finished.
C7_AllStartedTogether ==
    /\ mpc # "init" => \A s \in Range(sites_list) : pc[s] # "idle"
    /\ \A s, t \in Range(sites_list) : pc[t] # "idle" => pc[s] # "idle"

C7_Witness ==
    /\ mpc = "await_coro"
    /\ Len(sites_list) = 2
    /\ pc[1] = "sleep"
    /\ pc[2] = "request"
    /\ completed = <<>>

\* C8: outcomes are yielded in completion order: of two yielded outcomes, the one
\* whose check finished first was yielded first, whatever the sites' positions in
\* the input list; and when an outcome is yielded, the result of every check that
\* finished earlier (and whose sink call did not raise) has been yielded before it.
C8_CompletionOrder ==
    /\ \A i, j \in 1..Len(yielded) :
          i < j => Pos(completed, yielded[i].site) < Pos(completed, yielded[j].site)
    /\ \A j \in 1..Len(yielded) : \A x \in Range(completed) :
          ( /\ Pos(completed, x) < Pos(completed, yielded[j].site)
            /\ pc[x] = "returned"
            /\ x \notin sink_failed )
          => \E i \in 1..(j - 1) : yielded[i].site = x

C8_Witness ==
    /\ Len(yielded) = 2
    /\ yielded[1].site = 2
    /\ yielded[2].site = 1
    /\ completed = <<2, 1>>

\* C9: when the round is cancelled, cancel() is called on every task that is not
\* done and such a task ends cancelled; monitor_sites re-raises the cancellation
\* only once every task of the round is done; nothing is yielded after the
\* cancellation; and no task is running once monitor_sites has exited.
C9_CancellationDrains ==
    /\ mpc \in {"drain", "cancelled"} =>
          /\ \A s \in Range(sites_list) : Done(s) \/ cancel_requested[s]
          /\ Len(yielded) = yielded_at_cancel
    /\ \A s \in Sites : cancel_requested[s] => pc[s] \in {"request", "sleep", "cancelled"}
    /\ mpc = "cancelled" => \A s \in Range(sites_list) : Done(s)
    /\ mpc \in {"returned", "cancelled"} => \A s \in Sites : ~Running(s)

C9_Witness ==
    /\ mpc = "cancelled"
    /\ Len(sites_list) = 2
    /\ pc[1] = "cancelled"
    /\ pc[2] = "cancelled"
    /\ delay_arg[1] = 1
    /\ attempt[1] = 0

\* C10: a check that raises is logged and skipped: it yields no outcome and makes
\* no sink call, it neither ends the round nor has any task cancelled, and the
\* results of the other sites are still handed to the sink and yielded.
C10_RaisedCheckSkipped ==
    /\ \A s \in Sites : pc[s] = "raised" =>
          /\ s \notin YieldedSites
          /\ s \notin Range(logged)
          /\ s \notin sink_failed
    /\ \A s \in skipped : pc[s] = "raised"
    /\ (\E s \in Sites : cancel_requested[s]) => mpc \in {"drain", "cancelled"}
    /\ mpc = "returned" =>
          \A s \in Range(sites_list) :
             \/ s \in skipped
             \/ s \in sink_failed
             \/ s \in YieldedSites /\ s \in Range(logged)

C10_Witness ==
    /\ mpc = "returned"
    /\ skipped = {1}
    /\ completed = <<1, 2>>
    /\ YieldedSites = {2}
    /\ attempt[2] = 1

\* C11: every outcome monitor_sites has yielded was recorded by the sink's
\* log_result exactly once, and that call had returned when the outcome was
\* yielded; the sink is called once for every check of the round that returned a
\* result and was handled: the call either returned (one record) or raised (none).
C11_LoggedBeforeYielded ==
    /\ \A i \in 1..Len(yielded) :
          Cardinality({j \in 1..Len(logged) : logged[j] = yielded[i].site}) = 1
    /\ Len(logged) = Len(yielded)
    /\ \A i \in 1..Len(yielded) : logged[i] = yielded[i].site
    /\ \A j \in 1..Len(logged) : logged[j] \notin sink_failed
    /\ mpc = "returned" =>
          \A s \in Range(sites_list) :
             pc[s] = "returned" =>
                Cardinality({j \in 1..Len(logged) : logged[j] = s})
                   + (IF s \in sink_failed THEN 1 ELSE 0) = 1

C11_Witness ==
    /\ mpc = "returned"
    /\ Len(yielded) = 2
    /\ logged = <<2, 1>>
    /\ result[1].status = TIMEOUT_ERROR

\* C12: a sink call that raises does not end the round: no task is cancelled
\* because of it, every task of the round is still taken from as_completed, and
\* the results of the other sites are still handed to the sink and yielded.
C12_SinkFailureContinues ==
    /\ (sink_failed # {} /\ \E s \in Sites : cancel_requested[s])
          => mpc \in {"drain", "cancelled"}
    /\ (sink_failed # {} /\ mpc = "returned") =>
          /\ iter = Len(sites_list)
          /\ \A s \in Range(sites_list) \ sink_failed :
                pc[s] = "returned" => s \in YieldedSites /\ s \in Range(logged)
    /\ \A s \in sink_failed : s \notin YieldedSites /\ pc[s] = "returned"

C12_Witness ==
    /\ mpc = "returned"
    /\ sink_failed = {1}
    /\ completed = <<1, 2>>
    /\ YieldedSites = {2}
    /\ logged = <<2>>

----------------------------------------------------------------------------
(* Properties of the monitoring loop, checked under SpecApp *)

\* the loop of _run_monitoring_loop is running: the with block has been entered
\* and not left
InLoop == apc \in {"loop", "round", "interval_sleep", "error_pause"}

\* C13: once stop() has been called on an application whose run() has been
\* invoked, before the loop's first iteration, during a round or during a sleep,
\* no new monitoring round is started.
C13_NoRoundAfterStop ==
    [][stop_called => ~(apc # "round" /\ apc' = "round")]_vars

\* C14: rounds are strictly sequential: no site check of a round is started while
\* a site check task of an earlier round is still running, also when the earlier
\* round ended through an error or a cancellation.
C14_RoundsSequential == leftover = {}

\* C15: an exception other than a cancellation that escapes a round does not end
\* the loop: run() never ends with an error once the loop is entered; the loop
\* leaves its pause only for the `while` test (or by a cancellation), and the
\* `while` test starts a round if the flag is set and ends the loop only if it is not.
C15_RoundErrorRetried ==
    /\ [](run_exit = "error" => sink_entered = 0)
    /\ [](mpc = "abandoned" => apc \in {"error_pause", "loop", "exited"})
    /\ [][ /\ (apc = "error_pause" /\ apc' # apc)
              => (apc' = "loop" \/ run_exit' = "cancelled")
           /\ (apc = "loop" /\ apc' # apc)
              => IF running THEN apc' = "round" /\ run_exit' = None
                 ELSE apc' = "exited" /\ run_exit' = "returned" ]_vars

\* a second round has been started with round_number still 1: the first round
\* raised, the loop paused and ran a round again
C15_Witness ==
    /\ apc = "round"
    /\ rounds_started = 2
    /\ round_number = 1
    /\ ~stop_called
    /\ mpc = "await_coro"

\* C16: a cancellation of run(), during a round or during a sleep, reaches the
\* caller of run(): once CancelledError has passed the round or the sleep, run()
\* has ended with it; and whenever run() has ended the running flag is false.
C16_CancellationPropagates ==
    /\ cancel_delivered => apc = "exited" /\ run_exit = "cancelled"
    /\ (mpc = "cancelled" /\ apc # "round") => run_exit = "cancelled"
    /\ apc = "exited" => ~running /\ run_exit \in {"returned", "error", "cancelled"}
    /\ run_exit # None => apc = "exited"

C16_Witness ==
    /\ run_exit = "cancelled"
    /\ mpc = "cancelled"
    /\ rounds_started = 2
    /\ pc[1] = "cancelled"
    /\ ~stop_called
    /\ ~running

\* C17: the sink is entered once, before the first round, and released exactly
\* once however the loop is left; no log_result call is made before the sink is
\* entered or after it is released.
C17_SinkEnteredReleasedOnce ==
    /\ sink_entered <= 1
    /\ sink_released <= sink_entered
    /\ InLoop => sink_entered = 1 /\ sink_released = 0
    /\ rounds_started > 0 => sink_entered = 1
    /\ apc = "exited" => sink_released = sink_entered
    /\ mpc = "log_result" => sink_entered = 1 /\ sink_released = 0
    /\ sink_released = 1 => mpc \in {"none", "returned", "cancelled", "abandoned"}

C17_Witness ==
    /\ apc = "exited"
    /\ run_exit = "cancelled"
    /\ sink_entered = 1
    /\ sink_released = 1
    /\ Len(logged) = 1
    /\ yielded_at_cancel = 1

----------------------------------------------------------------------------
(* Properties of check_site's backoff and response time, under SpecCheck *)

\* what calculate_delay(n) can return under configuration c
DelaysFor(c, n) == {calculate_delay(c, n, f) : f \in JitterDraws(c)}

\* check_site has returned a failure after attempt number max_attempts
Exhausted(s) ==
    /\ pc[s] = "returned"
    /\ Attempts(s) = cfg[s].max_attempts
    /\ Failed(last_outcome[s])

\* C18 as stated: after failed attempt n (1-based) with attempts left, the sleep
\* before attempt n+1 lasts delay_for_attempt(n+1); with jitter off, EXPONENTIAL,
\* base 1 s and multiplier 2 the sleep after the first failed attempt is 2 s.
C18_SleepsDelayOfNextAttempt ==
    pc[1] = "sleep" =>
        /\ delay[1] \in DelaysFor(cfg[1], Attempts(1) + 1)
        /\ (cfg[1].strategy = EXPONENTIAL /\ ~cfg[1].jitter /\ Attempts(1) = 1)
              => delay[1] = 2000

\* C18, amended: after failed attempt n (1-based) with attempts left, the sleep
\* before attempt n+1 lasts calculate_delay(n), the delay of the attempt that
\* failed; with jitter off, EXPONENTIAL, base 1 s and multiplier 2 the sleep after
\* the first failed attempt is 1 s and the sleep after the second is 2 s.
C18_SleepsDelayOfFailedAttempt ==
    pc[1] = "sleep" =>
        /\ delay_arg[1] = Attempts(1)
        /\ delay[1] \in DelaysFor(cfg[1], Attempts(1))
        /\ (cfg[1].strategy = EXPONENTIAL /\ ~cfg[1].jitter /\ Attempts(1) = 1)
              => delay[1] = 1000
        /\ (cfg[1].strategy = EXPONENTIAL /\ ~cfg[1].jitter /\ Attempts(1) = 2)
              => delay[1] = 2000

C18_Witness ==
    /\ pc[1] = "sleep"
    /\ Attempts(1) = 2
    /\ cfg[1].strategy = EXPONENTIAL
    /\ ~cfg[1].jitter
    /\ delay[1] = 2000
    /\ last_outcome[1].kind = "timeout"

\* C19 as stated: when check_site ends in failure after max_attempts attempts,
\* the response time of the outcome is 0 if the last attempt timed out or failed
\* to connect, and the measured time of the last attempt if it received an HTTP
\* error status.
C19_ResponseTimeAsStated ==
    Exhausted(1) =>
        /\ last_outcome[1].kind \in {"timeout", "connector", "client"}
              => result[1].response_time_ms = 0
        /\ HttpError(last_outcome[1])
              => result[1].response_time_ms = last_outcome[1].ms

\* C19, amended: when check_site ends in failure after max_attempts attempts, the
\* response time of the outcome is the measured time of the last attempt if that
\* attempt timed out or failed with ClientConnectorError, and 0 if it received an
\* HTTP error status or failed with another aiohttp.ClientError.
C19_ResponseTimeOnFailure ==
    Exhausted(1) =>
        /\ last_outcome[1].kind \in {"timeout", "connector"}
              => result[1].response_time_ms = last_outcome[1].ms
        /\ (HttpError(last_outcome[1]) \/ last_outcome[1].kind = "client")
              => result[1].response_time_ms = 0

C19_Witness ==
    /\ Exhausted(1)
    /\ Attempts(1) = 2
    /\ last_outcome[1].kind = "timeout"
    /\ last_outcome[1].ms > 0
    /\ result[1].response_time_ms = last_outcome[1].ms

\* C20: when the final attempt of check_site receives an HTTP error status
\* (>= 400), the outcome check_site returns has response_time_ms 0, whatever time
\* was measured, and an error message.
C20_HttpErrorZeroTime ==
    (pc[1] = "returned" /\ HttpError(last_outcome[1])) =>
        /\ result[1].response_time_ms = 0
        /\ result[1].error_message # None
        /\ result[1].status # SUCCESS

C20_Witness ==
    /\ pc[1] = "returned"
    /\ last_outcome[1].kind = "response"
    /\ last_outcome[1].status = 404
    /\ last_outcome[1].ms > 0
    /\ result[1].response_time_ms = 0
    /\ result[1].error_message # None

\* the attempt got a response below 400 whose body meets the content requirements
GoodResponse(o) == o.kind = "response" /\ o.status < 400 /\ o.content_ok

C22_SuccessAfterRetries ==
    GoodResponse(last_outcome[1]) =>
        /\ pc[1] = "returned"
        /\ result[1].status = SUCCESS
        /\ result[1].response_time_ms = last_outcome[1].ms
        /\ result[1].error_message = None
        /\ Attempts(1) <= cfg[1].max_attempts
        /\ delay_arg[1] = attempt[1]

C22_Witness ==
    /\ GoodResponse(last_outcome[1])
    /\ pc[1] = "returned"
    /\ Attempts(1) = 3
    /\ delay_arg[1] = 2
    /\ result[1].status = SUCCESS
    /\ result[1].response_time_ms = 1

----------------------------------------------------------------------------
(* Properties of RetryConfig, checked under SpecDelay *)

\* the delay before jitter: the strategy's formula, limited by max_delay_seconds
ClampedDelay(c, n) ==
    IF n <= 0 THEN 0
    ELSE CASE c.strategy = FIXED -> Min(c.max_delay_seconds, c.base_delay_seconds)
           [] c.strategy = LINEAR ->
                 Min(c.max_delay_seconds, c.base_delay_seconds * n)
           [] c.strategy = EXPONENTIAL ->
                 Min(c.max_delay_seconds,
                     (c.base_delay_seconds * Pow(c.backoff_multiplier, n - 1))
                        \div Pow(10, n - 1))

Calls == 1..Len(delay_calls)

\* C23: with jitter off, calculate_delay(n) is 0 for n <= 0, and for n >= 1 it is
\* min(max_delay, base_delay) under FIXED, min(max_delay, base_delay * n) under
\* LINEAR and min(max_delay, base_delay * multiplier^(n-1)) under EXPONENTIAL.
C23_DelayFormula ==
    \A i \in Calls :
        ~policy.jitter =>
            /\ delay_calls[i].value = ClampedDelay(policy, delay_calls[i].attempt)
            /\ delay_calls[i].attempt <= 0 => delay_calls[i].value = 0

C23_Witness ==
    /\ Len(delay_calls) = 2
    /\ policy.strategy = EXPONENTIAL
    /\ ~policy.jitter
    /\ policy.backoff_multiplier = 20
    /\ policy.base_delay_seconds = 1000
    /\ policy.max_delay_seconds = 11000
    /\ delay_calls[1].attempt = 3
    /\ delay_calls[1].value = 4000
    /\ delay_calls[2].attempt = 0
    /\ delay_calls[2].value = 0

Successive(i, j) ==
    /\ ~policy.jitter
    /\ delay_calls[i].attempt >= 1
    /\ delay_calls[j].attempt = delay_calls[i].attempt + 1

\* C26 as stated: with jitter off, for every RetryConfig that can be constructed
\* and every n >= 1, calculate_delay(n+1) >= calculate_delay(n) under LINEAR and
\* under EXPONENTIAL, and calculate_delay(n) is one value for all n under FIXED.
C26_MonotoneAsStated ==
    \A i, j \in Calls :
        /\ (Successive(i, j) /\ policy.strategy \in {LINEAR, EXPONENTIAL})
              => delay_calls[j].value >= delay_calls[i].value
        /\ (Successive(i, j) /\ policy.strategy = FIXED)
              => delay_calls[j].value = delay_calls[i].value

\* C26, amended: the same, under EXPONENTIAL only for a backoff_multiplier of 1 or
\* more; with a multiplier below 1 the delay shrinks from attempt to attempt.
C26_MonotoneFromMultiplierOne ==
    \A i, j \in Calls :
        /\ (Successive(i, j) /\ policy.strategy = LINEAR)
              => delay_calls[j].value >= delay_calls[i].value
        /\ (Successive(i, j) /\ policy.strategy = EXPONENTIAL)
              => IF policy.backoff_multiplier >= 10
                 THEN delay_calls[j].value >= delay_calls[i].value
                 ELSE delay_calls[j].value <= delay_calls[i].value
        /\ (Successive(i, j) /\ policy.strategy = FIXED)
              => delay_calls[j].value = delay_calls[i].value

C26_Witness ==
    /\ Len(delay_calls) = 2
    /\ Successive(1, 2)
    /\ policy.strategy = EXPONENTIAL
    /\ policy.backoff_multiplier = 20
    /\ delay_calls[1].value = 1000
    /\ delay_calls[2].value = 2000

\* C27: RetryConfig(...) with max_delay below base_delay is rejected and with
\* max_delay equal to base_delay it is accepted, so every RetryConfig that exists
\* has max_delay_seconds >= base_delay_seconds.
C27_MaxDelayAtLeastBase ==
    /\ policy.max_delay_seconds < policy.base_delay_seconds
          => policy.state \in {"args", "rejected"} /\ delay_calls = <<>>
    /\ policy.state = "constructed"
          => policy.max_delay_seconds >= policy.base_delay_seconds
    /\ policy.state = "rejected"
          => \/ policy.max_delay_seconds < policy.base_delay_seconds
             \/ policy.backoff_multiplier <= 0
    /\ \A c \in RetryConfig : c.max_delay_seconds >= c.base_delay_seconds

C27_Witness ==
    /\ policy.state = "constructed"
    /\ policy.max_delay_seconds = 1000
    /\ policy.base_delay_seconds = 1000
    /\ policy.backoff_multiplier = 5

----------------------------------------------------------------------------
(* Properties of ContentRequirement, checked under SpecMatch, and of       *)
(* SiteConfig, checked under SpecSite                                      *)

\* the whole of s matches the whole of glob p: the characters of s are cut into
\* one piece per pattern character, any run for *, one character for ?, the
\* character itself otherwise
GlobMatches(s, p) ==
    \E cut \in [0..Len(p) -> 0..Len(s)] :
        /\ cut[0] = 0
        /\ cut[Len(p)] = Len(s)
        /\ \A i \in 1..Len(p) :
              IF p[i] = "*" THEN cut[i] >= cut[i - 1]
              ELSE /\ cut[i] = cut[i - 1] + 1
                   /\ p[i] = "?" \/ p[i] = s[cut[i]]

\* sub occurs in s
Substring(s, sub) ==
    \E i, j \in 0..Len(s) : i <= j /\ SubSeq(s, i + 1, j) = sub

\* C28: matches(body) with use_wildcards is true iff the whole body matches the
\* whole pattern as a glob, * matching any run of characters and ? exactly one;
\* without wildcards iff the pattern occurs in the body; when case_sensitive is
\* false, pattern and body are lowercased first.
C28_MatchesAsGlobOrSubstring ==
    match_result # <<>> =>
        LET body == IF requirement.case_sensitive THEN content ELSE lower(content)
            pat == IF requirement.case_sensitive THEN requirement.pattern
                   ELSE lower(requirement.pattern)
        IN match_result[1] <=> IF requirement.use_wildcards
                               THEN GlobMatches(body, pat)
                               ELSE Substring(body, pat)

\* a? matches aA, as Pytho? matches Python
C28_Witness ==
    /\ match_result = <<TRUE>>
    /\ requirement.use_wildcards
    /\ requirement.case_sensitive
    /\ requirement.pattern = <<"a", "?">>
    /\ content = <<"a", "A">>

\* C29 as stated: for every valid ContentRequirement, matches("") is false.
C29_EmptyBodyNeverMatches ==
    (match_result # <<>> /\ content = <<>>) => match_result = <<FALSE>>

\* C29, amended: matches("") is false, except for a wildcard requirement whose
\* pattern is made of * only, which matches the empty body.
C29_EmptyBodyMatchesStarsOnly ==
    (match_result # <<>> /\ content = <<>>) =>
        (match_result[1] <=>
            /\ requirement.use_wildcards
            /\ \A i \in 1..Len(requirement.pattern) : requirement.pattern[i] = "*")

C29_Witness ==
    /\ match_result = <<TRUE>>
    /\ content = <<>>
    /\ requirement.use_wildcards
    /\ requirement.pattern = <<"*">>

\* the requirements of the site that the body does not match, in their order
NonMatching == SelectSeq(site.content_requirements,
                         LAMBDA r : ~matches(r, content))

\* C30: check_content_requirements(body) looks at every requirement and returns
\* as failed_patterns the patterns of exactly the requirements that do not match,
\* in their order; success is true iff failed_patterns is empty when
\* require_all_content is true, and iff at least one requirement passed
\* (len(failed_patterns) < len(requirements)) when it is false.
C30_FailedPatternsAndSuccess ==
    site_result.state = "returned" =>
        /\ site_result.failed_patterns =
              [i \in 1..Len(NonMatching) |-> NonMatching[i].pattern]
        /\ site.require_all_content =>
              (site_result.success <=> site_result.failed_patterns = <<>>)
        /\ ~site.require_all_content =>
              /\ site_result.success <=>
                    Len(site_result.failed_patterns) < Len(site.content_requirements)
              /\ site_result.success <=>
                    \E i \in 1..Len(site.content_requirements) :
                        matches(site.content_requirements[i], content)

\* the body a fails the pattern AA and, after it, the pattern A of the str "A "
C30_Witness ==
    /\ site_result.state = "returned"
    /\ ~site.require_all_content
    /\ content = <<"a">>
    /\ Len(site.content_requirements) = 2
    /\ site_result.failed_patterns = <<<<"A", "A">>, <<"A">>>>
    /\ ~site_result.success

----------------------------------------------------------------------------
(* Properties of FileConfigLoader, checked under SpecLoad *)

FailureModes == {"missing file", "empty or unparseable", "unsupported format",
                 "invalid retry strategy", "schema validation", "no sites"}

\* the failure mode load_config meets first in file f, None if it meets none
FailureMode(f) ==
    IF ~f.exists THEN "missing file"
    ELSE IF f.blank THEN "empty or unparseable"
    ELSE IF suffix_lower(f.suffix) \notin {".yaml", ".yml", ".json"}
         THEN "unsupported format"
    ELSE IF f.text # "mapping" THEN "empty or unparseable"
    ELSE IF f.retry = "invalid_strategy" THEN "invalid retry strategy"
    ELSE IF \E i \in 1..Len(f.sites) :
               \/ f.sites[i].url # "valid"
               \/ f.sites[i].content_requirements = <<>>
         THEN "schema validation"
    ELSE IF f.sites = <<>> THEN "no sites"
    ELSE None

\* the error kinds load_config uses for the files of a failure mode
KindsOfMode ==
    [m \in FailureModes |->
        {load_config(f).kind : f \in {g \in ConfigFiles : FailureMode(g) = m}}]

\* C31 as stated: load_config signals each failure mode with an error kind that
\* is used for no other failure mode, and returns no configuration.
C31_DistinctErrorKinds ==
    (load_result # Absent /\ FailureMode(config_file) # None) =>
        /\ load_result.state = "raised"
        /\ load_result.config = <<>>
        /\ \A m \in FailureModes \ {FailureMode(config_file)} :
              load_result.kind \notin KindsOfMode[m]

\* C31, amended: load_config raises in every failure mode and returns no
\* configuration; the error kind is used for no other failure mode, except
\* ValueError, which signals an empty file, a text that is no mapping or an
\* empty one, and a configuration without sites.
C31_ErrorKindPerMode ==
    (load_result # Absent /\ FailureMode(config_file) # None) =>
        /\ load_result.state = "raised"
        /\ load_result.config = <<>>
        /\ load_result.kind \in
              CASE FailureMode(config_file) = "missing file" -> {"FileNotFoundError"}
                [] FailureMode(config_file) = "empty or unparseable" ->
                      {"ValueError", "InvalidJsonConfigError", "YAMLError"}
                [] FailureMode(config_file) = "unsupported format" ->
                      {"InvalidFileFormatError"}
                [] FailureMode(config_file) = "invalid retry strategy" ->
                      {"InvalidRetryStrategyError"}
                [] FailureMode(config_file) = "schema validation" ->
                      {"KeyError", "ValidationError"}
                [] FailureMode(config_file) = "no sites" -> {"ValueError"}
        /\ load_result.kind = "ValueError" <=>
              \/ FailureMode(config_file) = "no sites"
              \/ config_file.blank
              \/ /\ FailureMode(config_file) = "empty or unparseable"
                 /\ config_file.text \in {"no_mapping", "empty_mapping"}

\* the second site has no url: nothing of the first, valid site is returned
C31_Witness ==
    /\ load_result.state = "raised"
    /\ load_result.kind = "KeyError"
    /\ load_result.config = <<>>
    /\ Len(config_file.sites) = 2
    /\ config_file.sites[1] = [url |-> "valid", content_requirements |-> <<"str">>]
    /\ config_file.sites[2].url = "absent"

\* site i of the file has an entry that is neither a str nor a mapping
HasOtherEntry(i) ==
    \E j \in 1..Len(config_file.sites[i].content_requirements) :
        config_file.sites[i].content_requirements[j] \notin {"str", "mapping"}

\* C32: a site whose content_requirements has an entry that is neither a str nor
\* a mapping is rejected by the loader, whatever the other entries are.
C32_OtherEntryRejected ==
    (load_result # Absent /\ \E i \in 1..Len(config_file.sites) : HasOtherEntry(i))
        => load_result.state = "raised"

----------------------------------------------------------------------------
(* Properties of MonitoringConfig, checked under SpecInterval *)

\* C33: with_overridden_interval(i) raises ValueError for every i that is not a
\* positive integer (zero, negative, no integer); for a positive integer i it
\* returns a new config whose check_interval is i.
C33_OverrideNeedsPositiveInteger ==
    overridden # Absent =>
        IF overridden.interval.is_int /\ overridden.interval.value > 0
        THEN /\ overridden.state = "returned"
             /\ overridden.check_interval = overridden.interval.value
        ELSE overridden.state = "raised"

----------------------------------------------------------------------------
(* Further properties of check_site, checked under SpecCheck and           *)
(* SpecCheckFair                                                           *)

C35_CancellationStopsCheck ==
    [][cancel_requested[1] =>
          /\ attempt' = attempt
          /\ delay_arg' = delay_arg
          /\ result'[1] = NoResult
          /\ pc'[1] \in {pc[1], "cancelled"}]_vars

\* cancelled during the backoff sleep after a timed out first attempt
C35_Witness ==
    /\ pc[1] = "cancelled"
    /\ cancel_requested[1]
    /\ last_outcome[1].kind = "timeout"
    /\ delay_arg[1] = 1
    /\ Attempts(1) = 1
    /\ result[1] = NoResult

\* C37: check_site makes at most max_attempts attempts and at most max_attempts - 1
\* backoff sleeps and never sleeps after its last attempt; and provided every
\* request ends with a response, a timeout or a client error and no cancellation
\* occurs, it returns an outcome.
C37_CheckTerminates ==
    /\ [](/\ Attempts(1) <= cfg[1].max_attempts
          /\ delay_arg[1] <= cfg[1].max_attempts - 1
          /\ pc[1] = "sleep" => Attempts(1) < cfg[1].max_attempts
          /\ pc[1] = "returned" => result[1] # NoResult)
    /\ <>(\/ pc[1] = "returned"
          \/ pc[1] = "raised"
          \/ cancel_requested[1])

C37_Witness ==
    /\ pc[1] = "returned"
    /\ ~cancel_requested[1]
    /\ cfg[1].max_attempts = 3
    /\ Attempts(1) = 3
    /\ delay_arg[1] = 2
    /\ result[1].status = TIMEOUT_ERROR

----------------------------------------------------------------------------
(* Further properties of MonitoringApplication, checked under SpecAppFair  *)

\* stop() was called after the loop set the flag, and run() has not ended
StoppedInLoop == stop_called /\ ~running /\ InLoop

\* C36: after stop() is called during a round or during a sleep of the loop, no
\* further round is started and, rounds and sleeps terminating, run() ends once
\* the round or the sleep in progress is over.
C36_StopTakesEffect ==
    /\ [][StoppedInLoop => rounds_started' = rounds_started]_vars
    /\ StoppedInLoop ~> apc = "exited"

\* stop() was called during the first round over two sites; run() has returned
C36_Witness ==
    /\ stop_called
    /\ apc = "exited"
    /\ run_exit = "returned"
    /\ rounds_started = 1
    /\ Len(yielded) = 2
    /\ ~cancel_delivered

----------------------------------------------------------------------------
(* Properties of the round's summary, checked under Spec *)

\* C38: an outcome whose log_result call raised is not yielded; when the round
\* has returned, the number of outcomes yielded is the number of sites minus the
\* sites whose check raised minus the sites whose log_result raised, and
\* success_count + error_count of _execute_monitoring_round is the number of
\* outcomes yielded, success_count counting the SUCCESS outcomes among them.
C38_SinkFailureDropsOutcome ==
    /\ \A s \in sink_failed : s \notin YieldedSites
    /\ success_count + error_count <= Len(yielded)
    /\ mpc = "returned" =>
          /\ Len(yielded) =
                Len(sites_list) - Cardinality(skipped) - Cardinality(sink_failed)
          /\ success_count + error_count = Len(yielded)
          /\ success_count =
                Cardinality({i \in 1..Len(yielded) : yielded[i].result.status = SUCCESS})

\* a round of two sites has returned: site 1 was checked successfully and its
\* log_result raised, site 2 failed and was yielded; the summary counts one error
C38_Witness ==
    /\ mpc = "returned"
    /\ Len(sites_list) = 2
    /\ sink_failed = {1}
    /\ result[1].status = SUCCESS
    /\ YieldedSites = {2}
    /\ success_count = 0
    /\ error_count = 1

----------------------------------------------------------------------------
(* Properties of the checker's content check, checked under SpecResponse *)

\* C39: a CONTENT_ERROR outcome of _perform_single_check carries, as its
\* failed_content_requirements, the patterns of the site's requirements that the
\* body of the response did not match.
C39_FailedRequirementsRecorded ==
    (check_result # Absent /\ check_result.status = CONTENT_ERROR) =>
        /\ check_result.failed_content_requirements # None
        /\ check_result.failed_content_requirements =
              failed_patterns(site.content_requirements, response_text)

\* C40: the boolean HttpSiteChecker._check_content_requirements returns for a
\* body, the requirements of a site and its require_all_content is the success
\* field SiteConfig.check_content_requirements returns for that body.
C40_ContentChecksAgree ==
    content_check_passed # <<>> =>
        content_check_passed[1] =
            check_content_requirements(site, response_text).success

\* with require_all_content unset, the body a matches the first of two
\* requirements and fails the second: both implementations say the check passed
C40_Witness ==
    /\ content_check_passed = <<TRUE>>
    /\ ~site.require_all_content
    /\ response_text = <<"a">>
    /\ Len(site.content_requirements) = 2
    /\ failed_patterns(site.content_requirements, response_text) = <<<<"A", "A">>>>
    /\ check_result.status = SUCCESS

====
